---------------------------- MODULE Spec2Model ----------------------------
(***************************************************************************)
(* A model of src/octomark.c, the streaming Markdown-to-HTML converter.    *)
(*                                                                         *)
(* Bytes are one-character strings; a buffer is a sequence of bytes and    *)
(* is indexed from 0 as in the C source (At).  The output sink is the      *)
(* sequence of the pieces appended to it: a string literal of the source   *)
(* (a tag, an entity) is one piece, a byte copied from the input is a      *)
(* one-character piece.  The concatenation of the pieces is the sink's     *)
(* content.                                                                *)
(***************************************************************************)
EXTENDS Integers, Sequences, FiniteSets, TLC

\* ------------------------------------------------------------------ bounds

\* Number of lines of the input documents.
MaxLines == 2

\* #define MAX_BLOCK_NESTING 32
MAX_BLOCK_NESTING == 32

\* TableAlignment table_alignments[64]
MAX_TABLE_COLUMNS == 64

\* ------------------------------------------------------------------- bytes

\* The terminator byte the string buffer keeps after its content.
NUL == "NUL"

\* The backtick byte (0x60), which the parser of this notation does not
\* accept inside a string.
GRAVE == "GRAVE"

\* text[i] for a C pointer text = buf + 0: the byte at 0-based index i; the
\* buffer's terminator is read at and past its size.
At(buf, i) == IF i >= 0 /\ i < Len(buf) THEN buf[i + 1] ELSE NUL

\* The bytes buf[from .. from+n-1] (0-based), as memcpy(dst, buf + from, n).
Slice(buf, from, n) == SubSeq(buf, from + 1, from + n)

Digits == {"0", "1", "2", "3", "4", "5", "6", "7", "8", "9"}
Letters == {"a", "b", "c", "d", "e", "f", "g", "h", "i", "j", "k", "l", "m",
            "n", "o", "p", "q", "r", "s", "t", "u", "v", "w", "x", "y", "z",
            "A", "B", "C", "D", "E", "F", "G", "H", "I", "J", "K", "L", "M",
            "N", "O", "P", "Q", "R", "S", "T", "U", "V", "W", "X", "Y", "Z"}

isspace(c) == c \in {" ", "\t", "\n", "\r"}
isdigit(c) == c \in Digits
isalpha(c) == c \in Letters
isalnum(c) == c \in Letters \cup Digits

\* The least element of a non-empty set of integers.
MinOf(S) == CHOOSE x \in S : \A y \in S : x <= y

\* The first index k in from..(lim-1) with Stop(k), else lim: the exit value of
\* the loop  while (k < lim && !Stop(k)) k++.
FirstAt(from, lim, Stop) ==
  IF from >= lim THEN from
  ELSE MinOf({k \in from..(lim - 1) : Stop[k]} \cup {lim})

\* strncmp(buf + i, lit, Len(lit)) == 0; the comparison stops at the
\* terminator, which no literal contains.
StartsWith(buf, i, lit) == \A k \in 1..Len(lit) : At(buf, i + k - 1) = lit[k]

\* ----------------------------------------------------------- parser tables

\* octomark_init: the fifteen bytes of the string literal of line 177.
is_special_char(c) ==
  c \in {"\\", "[", "'", "*", GRAVE, "&", "<", ">", "\"", "_", "~", "!", "$", "h"}

EntityBytes == {"&", "<", ">", "\"", "'"}

\* octomark_init: parser->html_escape_map; "" stands for the null entry.
html_escape_map(c) ==
  CASE c = "&" -> "&amp;"
    [] c = "<" -> "&lt;"
    [] c = ">" -> "&gt;"
    [] c = "\"" -> "&quot;"
    [] c = "'" -> "&#39;"
    [] OTHER -> ""

\* ------------------------------------------------------------- block kinds

BLOCK_UNORDERED_LIST == 0
BLOCK_ORDERED_LIST == 1
BLOCK_BLOCKQUOTE == 2
BLOCK_DEFINITION_LIST == 3
BLOCK_DEFINITION_DESCRIPTION == 4
BLOCK_CODE == 5
BLOCK_MATH == 6
BLOCK_TABLE == 7
BLOCK_PARAGRAPH == 8

ALIGN_NONE == 0
ALIGN_LEFT == 1
ALIGN_CENTER == 2
ALIGN_RIGHT == 3

\* --------------------------------------------------------- the output sink

\* A faulty variant of the append: the literal replaces the sink's content.
EmitOverwriting(p, lit) == [p EXCEPT !.out = <<lit>>]

\* string_buffer_append_string(output, lit): one piece.
Emit(p, lit) == [p EXCEPT !.out = Append(@, lit)]

\* if (cond) string_buffer_append_string(output, lit).
EmitIf(cond, p, lit) == IF cond THEN Emit(p, lit) ELSE p

\* string_buffer_append_string_n(output, text, n) / append_char of input
\* bytes: the bytes, one piece each.
EmitBytes(p, bytes) == [p EXCEPT !.out = @ \o bytes]

\* ---------------------------------------------------------- the block stack

\* A faulty variant of push_block: no depth check.
push_block_unchecked(p, type, indent) ==
  [p EXCEPT !.stack = Append(@, [block_type |-> type, indent_level |-> indent])]

push_block(p, type, indent) ==
  IF Len(p.stack) < MAX_BLOCK_NESTING
  THEN [p EXCEPT !.stack = Append(@, [block_type |-> type, indent_level |-> indent])]
  ELSE p

\* get_current_block_type: -1 on the empty stack.
get_current_block_type(p) ==
  IF Len(p.stack) > 0 THEN p.stack[Len(p.stack)].block_type ELSE -1

\* peek_block(parser)->indent_level; the source dereferences it only after a
\* test that the stack is not empty or that the top has a list type.
peek_indent(p) == p.stack[Len(p.stack)].indent_level

\* The close emission of render_and_close_top_block for a block type.
CloseEmission(type) ==
  CASE type = BLOCK_UNORDERED_LIST -> "</li>\n</ul>\n"
    [] type = BLOCK_ORDERED_LIST -> "</li>\n</ol>\n"
    [] type = BLOCK_BLOCKQUOTE -> "</blockquote>\n"
    [] type = BLOCK_DEFINITION_LIST -> "</dl>\n"
    [] type = BLOCK_DEFINITION_DESCRIPTION -> "</dd>\n"
    [] type = BLOCK_CODE -> "</code></pre>\n"
    [] type = BLOCK_MATH -> "</div>\n"
    [] type = BLOCK_TABLE -> "</tbody></table>\n"
    [] type = BLOCK_PARAGRAPH -> "</p>\n"

render_and_close_top_block(p) ==
  IF Len(p.stack) = 0 THEN p
  ELSE Emit([p EXCEPT !.stack = SubSeq(@, 1, Len(@) - 1)],
            CloseEmission(get_current_block_type(p)))

close_paragraph_if_open(p) ==
  IF get_current_block_type(p) = BLOCK_PARAGRAPH
  THEN render_and_close_top_block(p) ELSE p

close_leaf_blocks(p) ==
  IF get_current_block_type(p) \in
       {BLOCK_PARAGRAPH, BLOCK_TABLE, BLOCK_CODE, BLOCK_MATH}
  THEN render_and_close_top_block(p) ELSE p

\* ----------------------------------------------------------------- escaping

\* append_escaped_text(parser, buf + from, n, output).
RECURSIVE append_escaped_text(_, _, _, _)
append_escaped_text(p, buf, from, n) ==
  IF n <= 0 THEN p
  ELSE LET c == At(buf, from)
           q == IF html_escape_map(c) # "" THEN Emit(p, html_escape_map(c))
                ELSE EmitBytes(p, <<c>>)
       IN append_escaped_text(q, buf, from + 1, n - 1)

\* ------------------------------------------------------------- raw HTML tags

\* The attribute loop of try_parse_html_tag: from index i, the index of the
\* closing '>' of the tag, or -1 when a quote is not closed or the text ends.
RECURSIVE HtmlAttributes(_, _, _, _)
HtmlAttributes(buf, base, len, i) ==
  IF i >= len THEN -1
  ELSE LET c == At(buf, base + i) IN
    IF c = ">" THEN i
    ELSE IF c \in {"\"", "'"}
    THEN LET q == FirstAt(i + 1, len, [k \in Int |-> At(buf, base + k) = c])
         IN IF q >= len THEN -1 ELSE HtmlAttributes(buf, base, len, q + 1)
    ELSE HtmlAttributes(buf, base, len, i + 1)

\* A faulty variant of try_parse_html_tag: no shape is recognized.
never_html_tag(buf, base, len) == 0

\* try_parse_html_tag(buf + base, len): the length of the tag, or 0.
try_parse_html_tag(buf, base, len) ==
  LET T(k) == At(buf, base + k) IN
  IF len < 3 \/ T(0) # "<" THEN 0
  ELSE IF 3 < len /\ T(1) = "!" /\ T(2) = "-" /\ T(3) = "-"
  THEN LET e == FirstAt(4, len - 2,
                  [k \in Int |-> T(k) = "-" /\ T(k + 1) = "-" /\ T(k + 2) = ">"])
       IN IF e + 2 < len THEN e + 3 ELSE 0
  ELSE IF 8 < len /\ StartsWith(buf, base + 1, <<"!", "[", "C", "D", "A", "T", "A", "[">>)
  THEN LET e == FirstAt(9, len - 2,
                  [k \in Int |-> T(k) = "]" /\ T(k + 1) = "]" /\ T(k + 2) = ">"])
       IN IF e + 2 < len THEN e + 3 ELSE 0
  ELSE IF T(1) = "?"
  THEN LET e == FirstAt(2, len - 1, [k \in Int |-> T(k) = "?" /\ T(k + 1) = ">"])
       IN IF e + 1 < len THEN e + 2 ELSE 0
  ELSE IF T(1) = "!"
  THEN LET e == FirstAt(2, len, [k \in Int |-> T(k) = ">"])
       IN IF e < len THEN e + 1 ELSE 0
  ELSE LET n == IF T(1) = "/" THEN 2 ELSE 1 IN
    IF n >= len \/ ~isalpha(T(n)) THEN 0
    ELSE LET a == FirstAt(n, len,
                    [k \in Int |-> ~(isalnum(T(k)) \/ T(k) = "-" \/ T(k) = ":")])
             g == HtmlAttributes(buf, base, len, a)
         IN IF g >= 0 THEN g + 1 ELSE 0

\* ------------------------------------------------------- inline tokenizer

\* The bracket loop of parse_inline_content (lines 383-389): the index after
\* the loop, which stops past the ']' that brings depth to 0 or at the end.
RECURSIVE BracketEnd(_, _, _, _, _)
BracketEnd(buf, base, length, i, depth) ==
  IF i < length /\ depth > 0
  THEN LET c == At(buf, base + i)
           d == IF c = "[" THEN depth + 1 ELSE IF c = "]" THEN depth - 1 ELSE depth
       IN BracketEnd(buf, base, length, i + 1, d)
  ELSE i

\* default_char: the entity of c when it has one, else c itself.
default_char(p, c) ==
  IF html_escape_map(c) # "" THEN Emit(p, html_escape_map(c))
  ELSE EmitBytes(p, <<c>>)

\* A faulty variant of the backslash branch: a backslash that ends the
\* fragment is appended as it is.
inline_backslash_kept(p, buf, base, length, i) ==
  IF i + 1 < length
  THEN [p |-> EmitBytes(p, <<At(buf, base + i + 1)>>), next |-> i + 2]
  ELSE [p |-> EmitBytes(p, <<"\\">>), next |-> i + 1]

\* The backslash branch (lines 309-313): the following byte is appended as
\* it is; a backslash that ends the fragment emits <br>.
inline_backslash(p, buf, base, length, i) ==
  IF i + 1 < length
  THEN [p |-> EmitBytes(p, <<At(buf, base + i + 1)>>), next |-> i + 2]
  ELSE [p |-> Emit(p, "<br>"), next |-> i + 1]

\* The autolink test (lines 419-421).
is_autolink(buf, at) ==
  /\ StartsWith(buf, at, <<"h", "t", "t", "p">>)
  /\ \/ StartsWith(buf, at + 4, <<":", "/", "/">>)
     \/ StartsWith(buf, at + 4, <<"s", ":", "/", "/">>)

\* parse_inline_content(parser, buf + base, length, output), entered with
\* the cursor at i.  A step yields the parser and the cursor for the next
\* iteration of the loop.
RECURSIVE InlineFrom(_, _, _, _, _)
parse_inline_content(p, buf, base, length) == InlineFrom(p, buf, base, length, 0)

\* A raw HTML tag of tag_len bytes is copied to the sink (lines 301-304).
RawTag(p, buf, base, i, tag_len) ==
  [p |-> EmitBytes(p, Slice(buf, base + i, tag_len)), next |-> i + tag_len]

InlineStep(p, buf, base, length, i) ==
  LET T(k) == At(buf, base + k)
      c == T(i)
      dflt == [p |-> default_char(p, c), next |-> i + 1]
  IN
  IF c = "<" /\ p.enable_html /\ try_parse_html_tag(buf, base + i, length - i) > 0
  THEN RawTag(p, buf, base, i, try_parse_html_tag(buf, base + i, length - i))
  ELSE IF c = "\\" THEN inline_backslash(p, buf, base, length, i)
  ELSE IF c = "_"
  THEN LET j == FirstAt(i + 1, length, [k \in Int |-> T(k) = "_"]) IN
       IF j < length
       THEN [p |-> Emit(parse_inline_content(Emit(p, "<em>"), buf,
                                             base + i + 1, j - (i + 1)),
                        "</em>"),
             next |-> j + 1]
       ELSE dflt
  ELSE IF c = "*" /\ i + 1 < length /\ T(i + 1) = "*"
  THEN LET j == FirstAt(i + 2, length - 1,
                        [k \in Int |-> T(k) = "*" /\ T(k + 1) = "*"]) IN
       IF j + 1 < length
       THEN [p |-> Emit(parse_inline_content(Emit(p, "<strong>"), buf,
                                             base + i + 2, j - (i + 2)),
                        "</strong>"),
             next |-> j + 2]
       ELSE dflt
  ELSE IF c = GRAVE
  THEN LET count == FirstAt(i + 1, length, [k \in Int |-> T(k) # GRAVE]) - i
           content_start == i + count
           match[k \in Int] ==
             \A m \in 0..(count - 1) : k + m < length /\ T(k + m) = GRAVE
           e == IF i + count < length
                THEN FirstAt(i + 1, length - count, match)
                ELSE i
           n == e - content_start
       IN IF n < 0
          THEN [p |-> [Emit(p, "<code>") EXCEPT !.ub = TRUE], next |-> length]
          ELSE [p |-> Emit(append_escaped_text(Emit(p, "<code>"), buf,
                                               base + content_start, n),
                           "</code>"),
                next |-> e + count]
  ELSE IF c = "~" /\ i + 1 < length /\ T(i + 1) = "~"
  THEN LET e == FirstAt(i + 2, length - 1,
                        [k \in Int |-> T(k) = "~" /\ T(k + 1) = "~"]) IN
       [p |-> Emit(parse_inline_content(Emit(p, "<del>"), buf,
                                        base + i + 2, e - (i + 2)),
                   "</del>"),
        next |-> e + 2]
  ELSE IF c = "!" \/ c = "["
  THEN LET b == IF c = "!" THEN i + 1 ELSE i
           link_text_start == b + 1
           r == BracketEnd(buf, base, length, link_text_start, 1)
       IN
       IF b < length /\ T(b) = "[" /\ r < length /\ T(r) = "("
       THEN LET link_text_len == r - link_text_start - 1
                url_start == r + 1
                u == FirstAt(url_start, length, [k \in Int |-> T(k) \in {")", " "}])
                url_len == u - url_start
                z == FirstAt(u, length, [k \in Int |-> T(k) = ")"])
                url == Slice(buf, base + url_start, url_len)
            IN IF c = "!"
               THEN [p |-> Emit(EmitBytes(Emit(EmitBytes(Emit(p, "<img src=\""),
                                    url), "\" alt=\""),
                                    Slice(buf, base + link_text_start, link_text_len)),
                                "\">"),
                     next |-> z + 1]
               ELSE [p |-> Emit(parse_inline_content(
                                  Emit(EmitBytes(Emit(p, "<a href=\""), url), "\">"),
                                  buf, base + link_text_start, link_text_len),
                                "</a>"),
                     next |-> z + 1]
       ELSE dflt
  ELSE IF c = "h" /\ is_autolink(buf, base + i)
  THEN LET e == FirstAt(i, length,
                        [k \in Int |-> isspace(T(k)) \/ T(k) = "<" \/ T(k) = ">"])
           url == Slice(buf, base + i, e - i)
       IN [p |-> Emit(EmitBytes(Emit(EmitBytes(Emit(p, "<a href=\""), url),
                                     "\">"), url), "</a>"),
           next |-> e]
  ELSE IF c = "$"
  THEN LET e == FirstAt(i + 1, length, [k \in Int |-> T(k) = "$"]) IN
       [p |-> Emit(append_escaped_text(Emit(p, "<span class=\"math\">"), buf,
                                       base + i + 1, e - (i + 1)),
                   "</span>"),
        next |-> e + 1]
  ELSE dflt

\* The next iteration of the loop after a step gave s.
InlineNext(s, buf, base, length) == InlineFrom(s.p, buf, base, length, s.next)

InlineFrom(p, buf, base, length, i0) ==
  IF i0 >= length \/ p.ub THEN p
  ELSE LET i == FirstAt(i0, length, [k \in Int |-> is_special_char(At(buf, base + k))])
           p1 == IF i > i0 THEN EmitBytes(p, Slice(buf, base + i0, i - i0)) ELSE p
       IN IF i >= length THEN p1
          ELSE InlineNext(InlineStep(p1, buf, base, length, i),
                          buf, base, length)

\* ------------------------------------------------------ table row splitter

\* The cell loop of split_table_row_cells from index i: the cells found, each
\* the offset of its first byte in buf and its trimmed length.
\* One iteration of the loop entered with i = i0: the cell it stores, or
\* nothing when only whitespace is left (the break of line 464).
SplitIteration(buf, base, length, i0) ==
  LET T(k) == At(buf, base + k)
      i == FirstAt(i0, length, [k \in Int |-> ~isspace(T(k))])
  IN IF i0 >= length \/ i >= length \/ T(i) = "\n" THEN <<>>
     ELSE LET stop == FirstAt(i, length, [k \in Int |-> T(k) = "|" \/ T(k) = "\n"])
              \* while (end > start && isspace(line[end - 1])) end--
              last == {k \in i..(stop - 1) : ~isspace(T(k))}
              end == IF last = {} THEN i
                     ELSE (CHOOSE k \in last : \A m \in last : m <= k) + 1
          IN <<[at |-> base + i, len |-> end - i]>>

\* An iteration of the loop from i0 is entered at k: at i0, behind a '|'
\* (the i++ of line 474), and at a '\n' that ended a cell, which is one with
\* a byte that is no whitespace between it and the '\n', the '|' or i0
\* before it.
SplitEntry(buf, base, i0, k) ==
  LET T(m) == At(buf, base + m) IN
  \/ k = i0
  \/ T(k - 1) = "|"
  \/ /\ T(k) = "\n"
     /\ \E q \in i0..(k - 1) :
          /\ ~isspace(T(q))
          /\ \A m \in q..(k - 1) : T(m) # "\n" /\ T(m) # "|"

\* The cells stored by the iterations entered at an index of lo..hi; the
\* range is halved to keep the evaluation shallow on rows of many cells.
RECURSIVE SplitRange(_, _, _, _, _, _)
SplitRange(buf, base, length, i0, lo, hi) ==
  IF lo > hi THEN <<>>
  ELSE IF lo = hi
  THEN IF SplitEntry(buf, base, i0, lo)
       THEN SplitIteration(buf, base, length, lo) ELSE <<>>
  ELSE SplitRange(buf, base, length, i0, lo, (lo + hi) \div 2)
       \o SplitRange(buf, base, length, i0, (lo + hi) \div 2 + 1, hi)

SplitCells(buf, base, length, i0, cells) ==
  cells \o SplitRange(buf, base, length, i0, i0, length - 1)

\* split_table_row_cells(buf + base, length, cells, cell_lengths).
split_table_row_cells(buf, base, length) ==
  LET T(k) == At(buf, base + k)
      s == FirstAt(0, length, [k \in Int |-> ~isspace(T(k))])
      i == IF s < length /\ T(s) = "|" THEN s + 1 ELSE s
  IN SplitCells(buf, base, length, i, <<>>)

\* ------------------------------------------------------------ line classifier

is_block_start_marker(buf, at, len) ==
  LET T(k) == At(buf, at + k) IN
  \/ len >= 3 /\ StartsWith(buf, at, <<GRAVE, GRAVE, GRAVE>>)
  \/ len >= 2 /\ T(0) = "$" /\ T(1) = "$"
  \/ len >= 1 /\ (T(0) = "#" \/ T(0) = ":")
  \/ len >= 2 /\ T(0) = "-" /\ T(1) = " "
  \/ len >= 3 /\ isdigit(T(0)) /\ T(1) = "." /\ T(2) = " "
  \/ len >= 3 /\ \/ StartsWith(buf, at, <<"-", "-", "-">>)
                 \/ StartsWith(buf, at, <<"*", "*", "*">>)
                 \/ StartsWith(buf, at, <<"_", "_", "_">>)

\* process_leaf_block_continuation(parser, buf + at, len, output): handled
\* is its return value.
process_leaf_block_continuation(p, buf, at, len) ==
  LET top == get_current_block_type(p)
      trim_start == FirstAt(0, len, [k \in Int |-> ~isspace(At(buf, at + k))])
  IN IF top # BLOCK_CODE /\ top # BLOCK_MATH
     THEN [p |-> p, handled |-> FALSE]
     ELSE IF \/ /\ top = BLOCK_CODE
                /\ len - trim_start >= 3
                /\ StartsWith(buf, at + trim_start, <<GRAVE, GRAVE, GRAVE>>)
             \/ /\ top = BLOCK_MATH
                /\ len - trim_start >= 2
                /\ StartsWith(buf, at + trim_start, <<"$", "$">>)
     THEN [p |-> render_and_close_top_block(p), handled |-> TRUE]
     ELSE [p |-> Emit(append_escaped_text(p, buf, at, len), "\n"),
           handled |-> TRUE]

\* try_parse_fenced_code_block(parser, buf + at, len, output).
try_parse_fenced_code_block(p, buf, at, len) ==
  IF len >= 3 /\ StartsWith(buf, at, <<GRAVE, GRAVE, GRAVE>>)
  THEN LET lang_len == FirstAt(3, len, [k \in Int |-> isspace(At(buf, at + k))]) - 3
           p1 == Emit(close_leaf_blocks(p), "<pre><code")
           p2 == IF lang_len > 0
                 THEN Emit(append_escaped_text(Emit(p1, " class=\"language-"),
                                               buf, at + 3, lang_len), "\"")
                 ELSE p1
       IN [p |-> push_block(Emit(p2, ">"), BLOCK_CODE, 0), ok |-> TRUE]
  ELSE [p |-> p, ok |-> FALSE]

\* try_parse_math_block(parser, buf + at, len, output).
try_parse_math_block(p, buf, at, len) ==
  IF len >= 2 /\ At(buf, at) = "$" /\ At(buf, at + 1) = "$"
  THEN [p |-> push_block(Emit(close_leaf_blocks(p), "<div class=\"math\">\n"),
                         BLOCK_MATH, 0),
        ok |-> TRUE]
  ELSE [p |-> p, ok |-> FALSE]

\* The tags try_parse_header builds in char tag[] for a level.
HeaderOpen(level) == <<"<h1>", "<h2>", "<h3>", "<h4>", "<h5>", "<h6>">>[level]
\* A faulty variant of HeaderClose: the closing tag keeps the level of the
\* initializer of tag[].
HeaderCloseFirst(level) == "</h1"

HeaderClose(level) == <<"</h1", "</h2", "</h3", "</h4", "</h5", "</h6">>[level]

\* try_parse_header(parser, buf + at, len, output).
try_parse_header(p, buf, at, len) ==
  LET level == IF len >= 2 /\ At(buf, at) = "#"
               THEN FirstAt(0, IF len < 6 THEN len ELSE 6,
                            [k \in Int |-> At(buf, at + k) # "#"])
               ELSE 0
  IN IF level >= 1 /\ level < len /\ At(buf, at + level) = " "
     THEN LET p1 == Emit(close_leaf_blocks(p), HeaderOpen(level))
              p2 == parse_inline_content(p1, buf, at + level + 1, len - level - 1)
          IN [p |-> Emit(Emit(p2, HeaderClose(level)), ">\n"), ok |-> TRUE]
     ELSE [p |-> p, ok |-> FALSE]

\* try_parse_horizontal_rule(parser, buf + at, len, output).
try_parse_horizontal_rule(p, buf, at, len) ==
  IF len = 3 /\ \/ StartsWith(buf, at, <<"-", "-", "-">>)
                \/ StartsWith(buf, at, <<"*", "*", "*">>)
                \/ StartsWith(buf, at, <<"_", "_", "_">>)
  THEN [p |-> Emit(close_leaf_blocks(p), "<hr>\n"), ok |-> TRUE]
  ELSE [p |-> p, ok |-> FALSE]

\* while (get_current_block_type(parser) != BLOCK_DEFINITION_LIST &&
\*        parser->stack_depth > 0) render_and_close_top_block(parser, output);
RECURSIVE CloseToDefinitionList(_)
CloseToDefinitionList(p) ==
  IF get_current_block_type(p) # BLOCK_DEFINITION_LIST /\ Len(p.stack) > 0
  THEN CloseToDefinitionList(render_and_close_top_block(p))
  ELSE p

InStack(p, type) == \E k \in 1..Len(p.stack) : p.stack[k].block_type = type

\* try_parse_definition_list: at and len are the line content on return.
try_parse_definition_list(p, buf, at, len, leading_spaces) ==
  IF len > 0 /\ At(buf, at) = ":"
  THEN LET sp == IF len - 1 > 0 /\ At(buf, at + 1) = " " THEN 1 ELSE 0
           p1 == close_paragraph_if_open(p)
           in_dl == InStack(p1, BLOCK_DEFINITION_LIST)
           in_dd == InStack(p1, BLOCK_DEFINITION_DESCRIPTION)
           p2 == IF ~in_dl
                 THEN push_block(Emit(p1, "<dl>\n"), BLOCK_DEFINITION_LIST,
                                 leading_spaces)
                 ELSE p1
           p3 == IF in_dd THEN CloseToDefinitionList(p2) ELSE p2
       IN [p |-> push_block(Emit(p3, "<dd>"), BLOCK_DEFINITION_DESCRIPTION,
                            leading_spaces),
           at |-> at + 1 + sp, len |-> len - 1 - sp, ok |-> TRUE]
  ELSE [p |-> p, at |-> at, len |-> len, ok |-> FALSE]

\* A faulty variant of the closing loop below: it closes the lists of a greater
\* indent and leaves a list of the same indent and another kind open.
RECURSIVE CloseDeeperLists(_, _, _)
CloseDeeperLists(p, target_type, current_indent) ==
  IF /\ Len(p.stack) > 0
     /\ get_current_block_type(p) < BLOCK_BLOCKQUOTE
     /\ peek_indent(p) > current_indent
  THEN CloseDeeperLists(render_and_close_top_block(p), target_type,
                        current_indent)
  ELSE p

\* The closing loop of try_parse_list_item (lines 654-659).
RECURSIVE CloseLists(_, _, _)
CloseLists(p, target_type, current_indent) ==
  IF /\ Len(p.stack) > 0
     /\ get_current_block_type(p) < BLOCK_BLOCKQUOTE
     /\ \/ peek_indent(p) > current_indent
        \/ /\ peek_indent(p) = current_indent
           /\ get_current_block_type(p) # target_type
  THEN CloseLists(render_and_close_top_block(p), target_type, current_indent)
  ELSE p

\* A faulty variant of the test below: no list is ever taken for the list
\* of the item.
NoListOnTop(p, target_type, current_indent) == FALSE

\* top == target_type && peek_block(parser)->indent_level == current_indent
\* (lines 661-663).
SameListOnTop(p, target_type, current_indent) ==
  /\ get_current_block_type(p) = target_type
  /\ peek_indent(p) = current_indent

\* try_parse_list_item: at and len are the line content on return.
try_parse_list_item(p, buf, at, len, leading_spaces) ==
  LET T(k) == At(buf, at + k)
      internal_spaces == FirstAt(0, len, [k \in Int |-> T(k) # " "])
      is_ul == /\ len - internal_spaces >= 2
               /\ T(internal_spaces) = "-"
               /\ T(internal_spaces + 1) = " "
      is_ol == /\ len - internal_spaces >= 3
               /\ isdigit(T(internal_spaces))
               /\ T(internal_spaces + 1) = "."
               /\ T(internal_spaces + 2) = " "
  IN IF is_ul \/ is_ol
     THEN LET target_type == IF is_ul THEN BLOCK_UNORDERED_LIST
                             ELSE BLOCK_ORDERED_LIST
              current_indent == leading_spaces + internal_spaces
              p1 == CloseLists(p, target_type, current_indent)
              p2 == IF SameListOnTop(p1, target_type, current_indent)
                    THEN Emit(close_leaf_blocks(p1), "</li>\n<li>")
                    ELSE push_block(
                           Emit(close_leaf_blocks(p1),
                                IF target_type = BLOCK_UNORDERED_LIST
                                THEN "<ul>\n<li>" ELSE "<ol>\n<li>"),
                           target_type, current_indent)
              used == internal_spaces + (IF is_ul THEN 2 ELSE 3)
              a == at + used
              n == len - used
              task == /\ is_ul /\ n >= 4 /\ At(buf, a) = "["
                      /\ At(buf, a + 1) \in {" ", "x"}
                      /\ At(buf, a + 2) = "]" /\ At(buf, a + 3) = " "
              p3 == IF task
                    THEN Emit(p2, IF At(buf, a + 1) = "x"
                                  THEN "<input type=\"checkbox\" checked disabled> "
                                  ELSE "<input type=\"checkbox\"  disabled> ")
                    ELSE p2
          IN [p |-> p3, at |-> IF task THEN a + 4 ELSE a,
              len |-> IF task THEN n - 4 ELSE n, ok |-> TRUE]
     ELSE [p |-> p, at |-> at, len |-> len, ok |-> FALSE]

\* The alignment loop of try_parse_table (lines 713-734) over the separator
\* row buf[q .. nn-1]: the alignments written to table_alignments, in order.
\* One iteration of the loop entered with p = q0: the alignment it writes,
\* or nothing when only whitespace is left before nn (the break of line 717).
AlignIteration(buf, q0, nn) ==
  LET q == FirstAt(q0, nn, [k \in Int |-> ~isspace(At(buf, k))])
  IN IF q0 >= nn \/ q >= nn THEN <<>>
     ELSE LET stop == FirstAt(q, nn, [k \in Int |-> At(buf, k) = "|"])
              last == {k \in q..(stop - 1) : ~isspace(At(buf, k))}
              end == IF last = {} THEN q
                     ELSE (CHOOSE k \in last : \A m \in last : m <= k) + 1
          IN <<IF q < end /\ At(buf, q) = ":" /\ At(buf, end - 1) = ":"
               THEN ALIGN_CENTER
               ELSE IF end > q /\ At(buf, end - 1) = ":" THEN ALIGN_RIGHT
               ELSE IF q < end /\ At(buf, q) = ":" THEN ALIGN_LEFT
               ELSE ALIGN_NONE>>

\* The alignments written by the iterations entered at an index of lo..hi.
\* An iteration ends on the first '|' at or after its entry and the next one
\* is entered behind that '|', so the iterations of the loop from q0 are
\* entered at q0 and behind every '|' of q0..nn-1; the range is halved to
\* keep the evaluation shallow on rows of many cells.
RECURSIVE AlignRange(_, _, _, _, _)
AlignRange(buf, q0, lo, hi, nn) ==
  IF lo > hi THEN <<>>
  ELSE IF lo = hi
  THEN IF lo = q0 \/ At(buf, lo - 1) = "|" THEN AlignIteration(buf, lo, nn)
       ELSE <<>>
  ELSE AlignRange(buf, q0, lo, (lo + hi) \div 2, nn)
       \o AlignRange(buf, q0, (lo + hi) \div 2 + 1, hi, nn)

AlignLoop(buf, q0, nn, acc) == acc \o AlignRange(buf, q0, q0, nn - 1, nn)

\* The style attribute of a cell with an alignment.
AlignStyle(align) ==
  CASE align = ALIGN_LEFT -> <<" style=\"text-align:left\"">>
    [] align = ALIGN_CENTER -> <<" style=\"text-align:center\"">>
    [] align = ALIGN_RIGHT -> <<" style=\"text-align:right\"">>
    [] OTHER -> <<>>

\* The cell loops of try_parse_table (lines 739-756 and 769-783) from cell k.
RECURSIVE RenderCells(_, _, _, _, _, _)
RenderCells(p, buf, cells, k, open, close) ==
  IF k > Len(cells) THEN p
  ELSE LET align == IF k - 1 < Len(p.table_alignments)
                    THEN p.table_alignments[k] ELSE ALIGN_NONE
           p1 == Emit([Emit(p, open) EXCEPT !.out = @ \o AlignStyle(align)], ">")
           p2 == parse_inline_content(p1, buf, cells[k].at, cells[k].len)
       IN RenderCells(Emit(p2, close), buf, cells, k + 1, open, close)

\* The index of the first '\n' at or after from, as strchr(buf + from, '\n');
\* Len(buf) when the terminator comes first.
NextNewline(buf, from) == FirstAt(from, Len(buf), [k \in Int |-> At(buf, k) = "\n"])

\* The cells of a row rendered into the parser p1, unless the row has more
\* cells than the arrays hold.
RowCells(p1, buf, cells, open, close) ==
  IF p1.ub THEN p1 ELSE RenderCells(p1, buf, cells, 1, open, close)

\* The header branch of try_parse_table (lines 705-759): cells are the cells
\* of the header row, aligns the alignments read from the separator row.
TableHeader(p, buf, cells, aligns) ==
  push_block(
    Emit(RowCells([Emit(close_leaf_blocks(p), "<table><thead><tr>")
                     EXCEPT !.table_alignments = aligns,
                            !.ub = \/ Len(aligns) > MAX_TABLE_COLUMNS
                                   \/ Len(cells) > MAX_TABLE_COLUMNS],
                  buf, cells, "<th", "</th>"),
         "</tr></thead><tbody>\n"),
    BLOCK_TABLE, 0)

\* The body row branch of try_parse_table (lines 763-786).
TableRow(p, buf, cells) ==
  Emit(RowCells([Emit(p, "<tr>") EXCEPT !.ub = Len(cells) > MAX_TABLE_COLUMNS],
                buf, cells, "<td", "</td>"),
       "</tr>\n")

\* A faulty variant of the test below: the lookahead line is not looked at.
SeparatorAssumed(buf, current_pos, nn) == TRUE

\* The test of the lookahead line at current_pos (lines 697-704): it ends in
\* a newline inside the buffer and starts, after spaces, with '|'.
SeparatorAhead(buf, current_pos, nn) ==
  /\ nn < Len(buf)
  /\ FirstAt(current_pos, nn, [k \in Int |-> At(buf, k) # " "]) < nn
  /\ At(buf, FirstAt(current_pos, nn, [k \in Int |-> At(buf, k) # " "])) = "|"

\* The separator cells start after the first '|' of the lookahead line.
SeparatorCells(buf, current_pos, nn) ==
  AlignLoop(buf, FirstAt(current_pos, nn, [k \in Int |-> At(buf, k) # " "]) + 1,
            nn, <<>>)

\* try_parse_table(parser, buf + at, len, buf, current_pos, output).  The
\* arrays of 64 alignments and 64 cells are written past their end by a row
\* of more cells: the flag ub records it.
try_parse_table(p, buf, at, len, current_pos) ==
  IF len > 0 /\ At(buf, at) = "|"
  THEN IF /\ get_current_block_type(p) # BLOCK_TABLE
          /\ SeparatorAhead(buf, current_pos, NextNewline(buf, current_pos))
       THEN [p |-> TableHeader(p, buf, split_table_row_cells(buf, at, len),
                               SeparatorCells(buf, current_pos,
                                              NextNewline(buf, current_pos))),
             ok |-> TRUE]
       ELSE IF get_current_block_type(p) = BLOCK_TABLE
       THEN [p |-> TableRow(p, buf, split_table_row_cells(buf, at, len)),
             ok |-> TRUE]
       ELSE [p |-> p, ok |-> FALSE]
  ELSE [p |-> p, ok |-> FALSE]

\* try_parse_definition_term(parser, buf + at, len, buf, current_pos, output).
try_parse_definition_term(p, buf, at, len, current_pos) ==
  LET nn == NextNewline(buf, current_pos)
      q == FirstAt(current_pos, nn, [k \in Int |-> ~isspace(At(buf, k))])
  IN IF nn < Len(buf) /\ q < nn /\ At(buf, q) = ":"
     THEN LET p1 == close_leaf_blocks(p)
              p2 == IF \/ Len(p1.stack) = 0
                       \/ get_current_block_type(p1) # BLOCK_DEFINITION_LIST
                    THEN push_block(Emit(p1, "<dl>\n"), BLOCK_DEFINITION_LIST, 0)
                    ELSE p1
              p3 == parse_inline_content(Emit(p2, "<dt>"), buf, at, len)
          IN [p |-> Emit(p3, "</dt>\n"), ok |-> TRUE]
     ELSE [p |-> p, ok |-> FALSE]

\* bool in_container of process_paragraph (lines 821-824).
in_container(p) ==
  /\ Len(p.stack) > 0
  /\ \/ get_current_block_type(p) < BLOCK_BLOCKQUOTE
     \/ get_current_block_type(p) = BLOCK_DEFINITION_DESCRIPTION

\* process_paragraph(parser, buf + at, len, is_dl, is_list, output).
process_paragraph(p, buf, at, len, is_dl, is_list) ==
  LET top == get_current_block_type(p)
      p1 == IF top # BLOCK_PARAGRAPH /\ ~in_container(p)
            THEN push_block(Emit(p, "<p>"), BLOCK_PARAGRAPH, 0)
            ELSE IF top = BLOCK_PARAGRAPH
                    \/ (in_container(p) /\ ~is_list /\ ~is_dl)
            THEN Emit(p, "\n")
            ELSE p
      line_break == /\ len >= 2
                    /\ At(buf, at + len - 1) = " "
                    /\ At(buf, at + len - 2) = " "
  IN EmitIf(line_break,
            parse_inline_content(p1, buf, at,
                                 IF line_break THEN len - 2 ELSE len),
            "<br>")

\* The blockquote marker loop of process_single_line (lines 862-871).
RECURSIVE QuotePrefix(_, _, _, _)
QuotePrefix(buf, at, len, quote_level) ==
  IF len > 0 /\ At(buf, at) = ">"
  THEN LET sp == IF len - 1 > 0 /\ At(buf, at + 1) = " " THEN 1 ELSE 0
       IN QuotePrefix(buf, at + 1 + sp, len - 1 - sp, quote_level + 1)
  ELSE [quote_level |-> quote_level, at |-> at, len |-> len]

\* The number of Blockquote entries on the stack (lines 873-876).
current_quote_level(p) ==
  Cardinality({k \in 1..Len(p.stack) : p.stack[k].block_type = BLOCK_BLOCKQUOTE})

\* while (current_quote_level > quote_level) ... (lines 887-892).
RECURSIVE CloseQuotes(_, _, _)
CloseQuotes(p, current, quote_level) ==
  IF current > quote_level
  THEN CloseQuotes(render_and_close_top_block(p),
                   IF get_current_block_type(p) = BLOCK_BLOCKQUOTE
                   THEN current - 1 ELSE current,
                   quote_level)
  ELSE p

\* while (parser->stack_depth < quote_level) ... (lines 894-898).  The loop's
\* condition reads the stack alone, so an iteration that leaves the stack as
\* it was repeats for ever: the flag hung records that the loop never exits.
RECURSIVE OpenQuotes(_, _)
OpenQuotes(p, quote_level) ==
  IF Len(p.stack) < quote_level
  THEN LET n == push_block(Emit(close_paragraph_if_open(p), "<blockquote>"),
                           BLOCK_BLOCKQUOTE, 0)
       IN IF n.stack = p.stack THEN [n EXCEPT !.hung = TRUE]
          ELSE OpenQuotes(n, quote_level)
  ELSE p

\* A faulty variant of the loop below: nothing is closed.
KeepNonLists(p) == p

\* while (parser->stack_depth > 0 &&
\*        get_current_block_type(parser) >= BLOCK_BLOCKQUOTE) ... (lines 856-858).
RECURSIVE CloseNonLists(_)
CloseNonLists(p) ==
  IF Len(p.stack) > 0 /\ get_current_block_type(p) >= BLOCK_BLOCKQUOTE
  THEN CloseNonLists(render_and_close_top_block(p))
  ELSE p

\* The result of process_single_line when handler r applied (its bool is
\* true), else the result alt of the handlers after it.  The field para of a
\* result is history: the stack process_paragraph was called with, or
\* nothing when the line did not reach it.
OrElse(r, skip, alt) ==
  IF r.ok THEN [p |-> r.p, skip |-> skip, para |-> <<>>] ELSE alt

\* The handlers of process_single_line after the list step (lines 905-922),
\* on the line content buf[at .. at+len-1]; the first that applies returns.
ClassifyAfterList(p, buf, at, len, is_dl, is_list, current_pos) ==
  OrElse(try_parse_fenced_code_block(p, buf, at, len), FALSE,
  OrElse(try_parse_math_block(p, buf, at, len), FALSE,
  OrElse(try_parse_header(p, buf, at, len), FALSE,
  OrElse(try_parse_horizontal_rule(p, buf, at, len), FALSE,
  OrElse(try_parse_table(p, buf, at, len, current_pos), TRUE,
  OrElse(try_parse_definition_term(p, buf, at, len, current_pos), FALSE,
         [p |-> process_paragraph(p, buf, at, len, is_dl, is_list),
          skip |-> FALSE,
          para |-> <<p.stack>>]))))))

\* The list step (lines 902-903) on the result dl of the definition step.
ClassifyAfterDefinition(dl, li, buf, current_pos) ==
  ClassifyAfterList(li.p, buf, li.at, li.len, dl.ok, li.ok, current_pos)

ClassifyFromDefinition(dl, buf, leading_spaces, current_pos) ==
  ClassifyAfterDefinition(
    dl, try_parse_list_item(dl.p, buf, dl.at, dl.len, leading_spaces),
    buf, current_pos)

\* The handlers of process_single_line after the blockquote step (lines
\* 900-922), on the line content buf[at .. at+len-1].
ClassifyContent(p, buf, at, len, leading_spaces, current_pos) ==
  ClassifyFromDefinition(
    try_parse_definition_list(p, buf, at, len, leading_spaces),
    buf, leading_spaces, current_pos)

\* process_single_line(parser, buf + at, len, buf, current_pos, output): the
\* parser after the line and the returned flag.
process_single_line(p, buf, at, len, current_pos) ==
  LET leaf == process_leaf_block_continuation(p, buf, at, len)
      leading_spaces == FirstAt(0, len, [k \in Int |-> At(buf, at + k) # " "])
      qp == QuotePrefix(buf, at + leading_spaces, len - leading_spaces, 0)
      current == current_quote_level(p)
      ti == FirstAt(0, qp.len, [k \in Int |-> At(buf, qp.at + k) # " "])
      quote_level ==
        IF /\ qp.quote_level < current
           /\ get_current_block_type(p) = BLOCK_PARAGRAPH
           /\ ~is_block_start_marker(buf, qp.at + ti, qp.len - ti)
        THEN current ELSE qp.quote_level
      opened == OpenQuotes(CloseQuotes(p, current, quote_level), quote_level)
  IN IF leaf.handled THEN [p |-> leaf.p, skip |-> FALSE, para |-> <<>>]
     ELSE IF len - leading_spaces = 0
     THEN [p |-> CloseNonLists(close_leaf_blocks(p)), skip |-> FALSE,
           para |-> <<>>]
     ELSE IF opened.hung THEN [p |-> opened, skip |-> FALSE, para |-> <<>>]
     ELSE ClassifyContent(opened, buf, qp.at, qp.len, leading_spaces,
                          current_pos)

\* ---------------------------------------------------------- streaming driver

\* What one call of process_single_line did: the line, the lookahead line
\* when the buffer holds it whole (else none), the stack before and after,
\* the table alignments before and after, the pieces appended to the sink,
\* the returned flag, and what process_paragraph was called with, if it was.
LogEntry(p, r, buf, at, len, current_pos) ==
  LET nn == NextNewline(buf, current_pos) IN
  [line |-> Slice(buf, at, len),
   la |-> IF nn < Len(buf) THEN <<Slice(buf, current_pos, nn - current_pos)>>
          ELSE <<>>,
   before |-> p.stack,
   after |-> r.p.stack,
   aligns |-> <<p.table_alignments, r.p.table_alignments>>,
   out |-> SubSeq(r.p.out, Len(p.out) + 1, Len(r.p.out)),
   skip |-> r.skip,
   para |-> r.para]

\* The line loop of octomark_feed (lines 929-944) over data from pos.
RECURSIVE FeedLoop(_, _, _, _)

\* A faulty variant of the rest of an iteration: an if in place of the
\* while, so that one call classifies one line at most.
AfterLineOnly(p, r, data, pos, next, lg) ==
  [p |-> r.p,
   pos |-> IF r.p.hung \/ r.p.ub THEN pos ELSE next + 1,
   lg |-> Append(lg, LogEntry(p, r, data, pos, next - pos, next + 1))]

\* The rest of an iteration after process_single_line returned r for the
\* line that ends at next (lines 936-943).
AfterLine(p, r, data, pos, next, lg) ==
  LET size == Len(data)
      pos1 == next + 1
      nn == NextNewline(data, pos1)
      pos2 == IF r.skip THEN (IF nn < size THEN nn + 1 ELSE size) ELSE pos1
      lg2 == Append(lg, LogEntry(p, r, data, pos, next - pos, pos1))
  IN IF r.p.hung \/ r.p.ub
     THEN [p |-> r.p, pos |-> pos, lg |-> lg2]
     ELSE FeedLoop(r.p, data, pos2, lg2)

FeedLoop(p, data, pos, lg) ==
  LET size == Len(data)
      next == NextNewline(data, pos)
  IN IF pos < size /\ next < size
     THEN AfterLine(p, process_single_line(p, data, pos, next - pos, next + 1),
                    data, pos, next, lg)
     ELSE [p |-> p, pos |-> pos, lg |-> lg]

\* A faulty variant of the compaction below: the rest of the buffer is
\* dropped.
DropRest(r, data) == [p |-> r.p, pending |-> <<>>, lg |-> r.lg]

\* The compaction of the pending buffer (lines 945-950) after the loop ended
\* with r.
Compact(r, data) ==
  [p |-> r.p,
   pending |-> IF r.pos > 0 THEN Slice(data, r.pos, Len(data) - r.pos)
               ELSE data,
   lg |-> r.lg]

\* octomark_feed(parser, chunk, len, output): the parser, the pending buffer
\* and the log after the call.
octomark_feed(p, pend, chunk, lg) ==
  Compact(FeedLoop(p, pend \o chunk, 0, lg), pend \o chunk)

\* A faulty variant of the closing loop: an if in place of the while, so that
\* only the top entry is closed.
CloseTopOnly(p) ==
  IF Len(p.stack) > 0 THEN render_and_close_top_block(p) ELSE p

\* while (parser->stack_depth > 0) render_and_close_top_block(parser, output);
RECURSIVE CloseAll(_)
CloseAll(p) ==
  IF Len(p.stack) > 0 THEN CloseAll(render_and_close_top_block(p)) ELSE p

\* The closing loop of octomark_finish after the tail line returned r.
FinishAfterTail(p, r, pend, lg) ==
  [p |-> IF r.p.hung \/ r.p.ub THEN r.p ELSE CloseAll(r.p),
   lg |-> Append(lg, LogEntry(p, r, pend, 0, Len(pend), Len(pend)))]

\* octomark_finish(parser, output).
octomark_finish(p, pend, lg) ==
  IF Len(pend) > 0
  THEN FinishAfterTail(p, process_single_line(p, pend, 0, Len(pend), Len(pend)),
                       pend, lg)
  ELSE [p |-> CloseAll(p), lg |-> lg]

\* octomark_init: the parser after construction, with an empty sink.
InitParser ==
  [stack |-> <<>>, table_alignments |-> <<>>, enable_html |-> FALSE,
   out |-> <<>>, hung |-> FALSE, ub |-> FALSE]

\* -------------------------------------------------------------- the documents

RECURSIVE Join(_)
\* The lines, each followed by a newline byte.
Join(ls) == IF ls = <<>> THEN <<>> ELSE Head(ls) \o <<"\n">> \o Join(Tail(ls))

\* A run of n bytes c.
Rep(c, n) == [k \in 1..n |-> c]

\* The documents of 1..n lines drawn from a set of lines.
DocsOf(Lines, n) == {Join(ls) : ls \in UNION {[1..m -> Lines] : m \in 1..n}}

\* Lines of the block and inline grammar.
Lines ==
  { <<"a">>,
    <<"-", " ", "a">>,
    <<">", " ", "a">>,
    <<"|", "a", "|">>,
    <<"|", "-", "|">>,
    <<":", " ", "a">>,
    <<"\\", "<">>,
    <<>> }

Docs == DocsOf(Lines, MaxLines)

\* ------------------------------------------------------------ the state machine

VARIABLES
  doc,               \* the input, fed in order
  fed,               \* how many bytes of doc the caller has fed
  pending,           \* parser->pending_buffer
  stack,             \* parser->block_stack[0 .. stack_depth-1]
  table_alignments,  \* parser->table_alignments[0 .. table_column_count-1]
  enable_html,       \* parser->enable_html
  output,            \* the sink, as the pieces appended to it
  phase,             \* "open", "finished", "hung" (a call that never returns)
                     \* or "ub" (a call with undefined behaviour)
  log                \* history: the calls of process_single_line so far

vars == <<doc, fed, pending, stack, table_alignments, enable_html, output,
          phase, log>>

\* The parser struct and the sink as the operators above take them.
Parser ==
  [stack |-> stack, table_alignments |-> table_alignments,
   enable_html |-> enable_html, out |-> output, hung |-> FALSE, ub |-> FALSE]

PhaseAfter(p, normal) ==
  IF p.hung THEN "hung" ELSE IF p.ub THEN "ub" ELSE normal

InitWith(D) ==
  /\ doc \in D
  /\ fed = 0
  /\ pending = <<>>
  /\ stack = InitParser.stack
  /\ table_alignments = InitParser.table_alignments
  /\ enable_html = InitParser.enable_html
  /\ output = InitParser.out
  /\ phase = "open"
  /\ log = <<>>

Init == InitWith(Docs)

\* The parser, the sink and the log after a call that gave r; normal is the
\* phase after a call that returned.
Returned(r, normal) ==
  /\ stack' = r.p.stack
  /\ table_alignments' = r.p.table_alignments
  /\ output' = r.p.out
  /\ phase' = PhaseAfter(r.p, normal)
  /\ log' = r.lg

\* The state after octomark_feed gave r.
FeedReturned(r) ==
  /\ Returned(r, "open")
  /\ pending' = r.pending

\* The caller feeds the next n bytes of the document in one octomark_feed;
\* n = 0 is a call with the empty chunk.
Feed(n) ==
  /\ phase = "open"
  /\ fed + n <= Len(doc)
  /\ FeedReturned(octomark_feed(Parser, pending, Slice(doc, fed, n), log))
  /\ fed' = fed + n
  /\ UNCHANGED <<doc, enable_html>>

\* The caller calls octomark_finish.
Finish ==
  /\ phase = "open"
  /\ Returned(octomark_finish(Parser, pending, log), "finished")
  /\ UNCHANGED <<doc, fed, pending, enable_html>>

Next ==
  \/ \E n \in 0..Len(doc) : Feed(n)
  \/ Finish

Spec == Init /\ [][Next]_vars

\* The sink after one octomark_feed of the whole input and octomark_finish.
OneShot(input) ==
  LET f == octomark_feed(InitParser, <<>>, input, <<>>)
  IN octomark_finish(f.p, f.pending, f.lg)

\* ------------------------------------------- further sets of input documents

\* Lines of a table, a definition description and plain text; the documents
\* have up to two lines more than MaxLines, so that a header row, its
\* separator row, a body row and a following line fit.
TableLines ==
  { <<"|", "a", "|">>,
    <<"|", "-", "|">>,
    <<":", " ", "a">>,
    <<"x">> }

TableDocs == DocsOf(TableLines, MaxLines + 2)

SpecTable == InitWith(TableDocs) /\ [][Next]_vars

\* Lines that carry as many blockquote markers as the stack has room for,
\* one fewer and one more.
CapLines ==
  { Rep(">", MAX_BLOCK_NESTING) \o <<"a">>,
    Rep(">", MAX_BLOCK_NESTING) \o <<"-", " ", "a">>,
    Rep(">", MAX_BLOCK_NESTING - 1) \o <<"a">>,
    Rep(">", MAX_BLOCK_NESTING + 1) \o <<"a">> }

CapDocs == DocsOf(CapLines, MaxLines)

SpecCap == InitWith(CapDocs) /\ [][Next]_vars

\* ------------------------------------------------------------------ the claims

\* The bytes of the input fed so far.
FedInput == Slice(doc, 0, fed)

\* C1 (chunking invariance): once octomark_finish has returned, the sink
\* holds what one octomark_feed of the whole input fed so far followed by
\* octomark_finish appends, whatever the chunks were.
C1_ChunkingInvariance ==
  phase = "finished" => output = OneShot(FedInput).p.out

\* C2 (totality): no call of octomark_feed or octomark_finish runs for ever.
C2_Totality == phase # "hung"

\* The open and close events of the block-level tags in a piece of the sink.
TagEvents(piece) ==
  CASE piece = "<p>" -> <<<<"open", "p">>>>
    [] piece = "</p>\n" -> <<<<"close", "p">>>>
    [] piece = "<ul>\n<li>" -> <<<<"open", "ul">>, <<"open", "li">>>>
    [] piece = "<ol>\n<li>" -> <<<<"open", "ol">>, <<"open", "li">>>>
    [] piece = "</li>\n<li>" -> <<<<"close", "li">>, <<"open", "li">>>>
    [] piece = "</li>\n</ul>\n" -> <<<<"close", "li">>, <<"close", "ul">>>>
    [] piece = "</li>\n</ol>\n" -> <<<<"close", "li">>, <<"close", "ol">>>>
    [] piece = "<blockquote>" -> <<<<"open", "blockquote">>>>
    [] piece = "</blockquote>\n" -> <<<<"close", "blockquote">>>>
    [] piece = "<dl>\n" -> <<<<"open", "dl">>>>
    [] piece = "</dl>\n" -> <<<<"close", "dl">>>>
    [] piece = "<dd>" -> <<<<"open", "dd">>>>
    [] piece = "</dd>\n" -> <<<<"close", "dd">>>>
    [] piece = "<pre><code" -> <<<<"open", "pre">>, <<"open", "code">>>>
    [] piece = "</code></pre>\n" -> <<<<"close", "code">>, <<"close", "pre">>>>
    [] piece = "<code>" -> <<<<"open", "code">>>>
    [] piece = "</code>" -> <<<<"close", "code">>>>
    [] piece = "<div class=\"math\">\n" -> <<<<"open", "div">>>>
    [] piece = "</div>\n" -> <<<<"close", "div">>>>
    [] piece = "<table><thead><tr>" -> <<<<"open", "table">>>>
    [] piece = "</tr></thead><tbody>\n" -> <<<<"open", "tbody">>>>
    [] piece = "</tbody></table>\n" -> <<<<"close", "tbody">>, <<"close", "table">>>>
    [] OTHER -> <<>>

RECURSIVE EventsOf(_)
EventsOf(out) ==
  IF out = <<>> THEN <<>> ELSE TagEvents(Head(out)) \o EventsOf(Tail(out))

\* Every close event closes the innermost open tag and no tag stays open.
RECURSIVE Balanced(_, _)
Balanced(events, open) ==
  IF events = <<>> THEN open = <<>>
  ELSE LET e == Head(events) IN
    IF e[1] = "open" THEN Balanced(Tail(events), Append(open, e[2]))
    ELSE /\ open # <<>>
         /\ open[Len(open)] = e[2]
         /\ Balanced(Tail(events), SubSeq(open, 1, Len(open) - 1))

\* C3 (balanced tags): after octomark_finish every block-level opening tag
\* in the sink has its closing tag, in LIFO order.
C3_BalancedTags == phase = "finished" => Balanced(EventsOf(output), <<>>)

\* The close emissions of the entries of a stack, top entry first.
CloseEmissionsTopDown(st) ==
  [k \in 1..Len(st) |-> CloseEmission(st[Len(st) + 1 - k].block_type)]

\* The parser after the residual tail, if any, was classified as one line
\* with no lookahead.
AfterTail ==
  IF pending = <<>> THEN Parser
  ELSE process_single_line(Parser, pending, 0, Len(pending), Len(pending)).p

\* C4 (finish empties the stack): a call of octomark_finish that returns
\* leaves the stack empty, and what it appended ends with the close emissions
\* of the entries open after the tail line, top entry first.
C4_FinishClosesAll ==
  [][(phase = "open" /\ phase' = "finished") =>
       /\ stack' = <<>>
       /\ output' = AfterTail.out \o CloseEmissionsTopDown(AfterTail.stack)]_vars

\* C4 witness: octomark_finish returned after classifying a tail line that
\* left two or more entries open.
C4_Witness ==
  /\ phase = "finished"
  /\ pending # <<>>
  /\ log # <<>>
  /\ Len(log[Len(log)].after) >= 2
  /\ stack = <<>>

\* C5 (depth bound): the stack never holds more than MAX_BLOCK_NESTING
\* entries, between calls and after every classified line.
C5_DepthBounded ==
  /\ Len(stack) <= MAX_BLOCK_NESTING
  /\ \A i \in DOMAIN log : Len(log[i].after) <= MAX_BLOCK_NESTING

\* C5 witness: a line was classified on a full stack, asked for one more
\* block (its <p> was appended) and the stack stayed full.
C5_Witness ==
  \E i \in DOMAIN log :
    /\ Len(log[i].before) = MAX_BLOCK_NESTING
    /\ Len(log[i].after) = MAX_BLOCK_NESTING
    /\ \E k \in DOMAIN log[i].out : log[i].out[k] = "<p>"

\* The pieces that open a block.
OpeningPieces ==
  {"<p>", "<ul>\n<li>", "<ol>\n<li>", "<blockquote>", "<dl>\n", "<dd>",
   "<pre><code", "<div class=\"math\">\n", "<table><thead><tr>"}

\* C6 (cap overflow): a line classified while the stack holds
\* MAX_BLOCK_NESTING entries leaves the stack as it was and appends no
\* opening tag of a block.
C6_CapOverflowPlainText ==
  \A i \in DOMAIN log :
    Len(log[i].before) = MAX_BLOCK_NESTING /\ Len(log[i].after) = MAX_BLOCK_NESTING =>
      \A k \in DOMAIN log[i].out : log[i].out[k] \notin OpeningPieces

\* C7 (entity safety): with enable_html off, no '<' or '&' byte of the input
\* reaches the sink as it is.
C7_EntitySafety ==
  ~enable_html => \A k \in DOMAIN output : output[k] \notin {"<", "&"}

\* The bytes of a buffer after its last newline.
TailAfterLastNewline(buf) ==
  LET nls == {k \in 1..Len(buf) : buf[k] = "\n"}
      last == IF nls = {} THEN 0 ELSE CHOOSE k \in nls : \A m \in nls : m <= k
  IN SubSeq(buf, last + 1, Len(buf))

\* C8 (leftover): after every octomark_feed the pending buffer is the input
\* fed so far after its last newline.
C8_Leftover == phase = "open" => pending = TailAfterLastNewline(FedInput)

\* The type of the top entry of a stack, -1 when it is empty.
TopType(st) == IF st = <<>> THEN -1 ELSE st[Len(st)].block_type

\* C9 (consumed_next): process_single_line returns true only for a table
\* header line, that is a line that opened a table.
C9_SkipOnlyHeader ==
  \A i \in DOMAIN log :
    log[i].skip => /\ TopType(log[i].before) # BLOCK_TABLE
                   /\ TopType(log[i].after) = BLOCK_TABLE

Containers ==
  {BLOCK_UNORDERED_LIST, BLOCK_ORDERED_LIST, BLOCK_BLOCKQUOTE,
   BLOCK_DEFINITION_LIST, BLOCK_DEFINITION_DESCRIPTION}

\* C10 (stack shape): every entry below the top one is a container.
C10_StackShape ==
  \A k \in 1..(Len(stack) - 1) : stack[k].block_type \in Containers

\* s is a prefix of t.
IsPrefix(s, t) == Len(s) <= Len(t) /\ SubSeq(t, 1, Len(s)) = s

\* C11 (monotonic output): every call of octomark_feed and octomark_finish
\* leaves the sink's earlier content in place and only appends to it.
C11_MonotonicOutput == [][IsPrefix(output, output')]_vars

\* C11 witness: octomark_finish returned after two or more lines were
\* classified, the first and the last of which appended to the sink.
C11_Witness ==
  /\ phase = "finished"
  /\ Len(log) >= 2
  /\ log[1].out # <<>>
  /\ log[Len(log)].out # <<>>
  /\ IsPrefix(log[1].out, output)

\* ------------------------------------------------- code and math blocks

\* Lines of a fenced code block and a math block: the fences, an opening
\* fence with an info string, a longer fence and a line of block markers
\* with a byte that has an entity.
FenceLines ==
  { <<GRAVE, GRAVE, GRAVE>>,
    <<GRAVE, GRAVE, GRAVE, "x">>,
    <<" ", GRAVE, GRAVE, GRAVE, GRAVE>>,
    <<"$", "$">>,
    <<"-", " ", "<">> }

FenceDocs == DocsOf(FenceLines, MaxLines + 1)

SpecFence == InitWith(FenceDocs) /\ [][Next]_vars

\* A line without its leading and trailing whitespace.
Trimmed(line) ==
  LET ks == {k \in 1..Len(line) : ~isspace(line[k])}
  IN IF ks = {} THEN <<>>
     ELSE SubSeq(line, MinOf(ks), CHOOSE k \in ks : \A m \in ks : m <= k)

\* The trimmed line is nothing but a run of three or more backticks.
IsFenceRun(line) ==
  /\ Len(Trimmed(line)) >= 3
  /\ \A k \in DOMAIN Trimmed(line) : Trimmed(line)[k] = GRAVE

\* The bytes of a line with each of & < > " ' replaced by its entity.
Escaped(line) ==
  [k \in DOMAIN line |->
     CASE line[k] = "&" -> "&amp;"
       [] line[k] = "<" -> "&lt;"
       [] line[k] = ">" -> "&gt;"
       [] line[k] = "\"" -> "&quot;"
       [] line[k] = "'" -> "&#39;"
       [] OTHER -> line[k]]

\* A stack without its top entry.
Popped(st) == SubSeq(st, 1, Len(st) - 1)

\* C12 (fenced code closing): with Code on top, a line that is a run of three
\* or more backticks pops Code with its close emission, and every other line
\* is appended escaped with a newline and leaves Code open.
C12_FenceCloses ==
  \A i \in DOMAIN log :
    TopType(log[i].before) = BLOCK_CODE =>
      IF IsFenceRun(log[i].line)
      THEN /\ log[i].after = Popped(log[i].before)
           /\ log[i].out = <<"</code></pre>\n">>
      ELSE /\ log[i].after = log[i].before
           /\ log[i].out = Escaped(log[i].line) \o <<"\n">>

\* The line closes the block on top of a stack: a run of three or more
\* backticks for Code, a line that starts with $$ for Math.
IsClosingFence(st, line) ==
  IF TopType(st) = BLOCK_CODE THEN IsFenceRun(line)
  ELSE Len(Trimmed(line)) >= 2 /\ SubSeq(Trimmed(line), 1, 2) = <<"$", "$">>

\* C13 (code and math pass-through): with Code or Math on top, a line that is
\* not the closing fence is appended escaped with a newline, the call returns
\* false and the stack and the table alignments stay as they were.
C13_PassThrough ==
  \A i \in DOMAIN log :
    (/\ TopType(log[i].before) \in {BLOCK_CODE, BLOCK_MATH}
     /\ ~IsClosingFence(log[i].before, log[i].line)) =>
      /\ log[i].out = Escaped(log[i].line) \o <<"\n">>
      /\ ~log[i].skip
      /\ log[i].after = log[i].before
      /\ log[i].aligns[2] = log[i].aligns[1]

\* --------------------------------------------------------------- tables

\* The segments of a sequence of bytes between its '|' bytes.
PipeSegments(bytes) ==
  LET pipes == {k \in 1..Len(bytes) : bytes[k] = "|"}
      starts == {0} \cup pipes
      StartOf(m) == CHOOSE s \in starts : Cardinality({t \in starts : t <= s}) = m
      EndOf(s) == MinOf({k \in pipes : k > s} \cup {Len(bytes) + 1})
  IN [m \in 1..Cardinality(starts) |->
        SubSeq(bytes, StartOf(m) + 1, EndOf(StartOf(m)) - 1)]

\* The cells of a table row, trimmed: the segments after the leading '|',
\* without the empty segment after a closing '|'.
PipeCells(line) ==
  LET t == Trimmed(line)
      segs == PipeSegments(IF t # <<>> /\ t[1] = "|" THEN Tail(t) ELSE t)
      n == IF Trimmed(segs[Len(segs)]) = <<>> THEN Len(segs) - 1 ELSE Len(segs)
  IN [k \in 1..n |-> Trimmed(segs[k])]

\* A trimmed separator cell of the form :?-+:?
IsDashCell(cell) ==
  LET a == IF cell # <<>> /\ cell[1] = ":" THEN 2 ELSE 1
      b == IF cell # <<>> /\ cell[Len(cell)] = ":" THEN Len(cell) - 1 ELSE Len(cell)
  IN a <= b /\ \A k \in a..b : cell[k] = "-"

\* A valid separator row: spaces, then '|', then cells of the form :?-+:?
ValidSeparator(line) ==
  /\ Trimmed(line) # <<>>
  /\ Trimmed(line)[1] = "|"
  /\ \A k \in 1..(MinOf({m \in 1..Len(line) : line[m] # " "}) - 1) : line[k] = " "
  /\ \A k \in DOMAIN PipeCells(line) : IsDashCell(PipeCells(line)[k])

\* C14 (table opening): a line opens a table only when the lookahead line is
\* a valid separator row.
C14_TableNeedsSeparator ==
  \A i \in DOMAIN log :
    (\E k \in DOMAIN log[i].out : log[i].out[k] = "<table><thead><tr>") =>
      /\ log[i].la # <<>>
      /\ ValidSeparator(log[i].la[1])

\* Header rows, separator rows with alignment markers and a body row of one
\* cell: rows with as many cells as columns, with fewer and with more.
AlignLines ==
  { <<"|", "a", "|", "b", "|">>,
    <<"|", ":", "-", "|", "-", ":", "|">>,
    <<"|", ":", "-", ":", "|">>,
    <<"|", "a", "|">> }

AlignDocs == DocsOf(AlignLines, MaxLines + 1)

SpecAlign == InitWith(AlignDocs) /\ [][Next]_vars

\* A header row of three cells and a separator row of one column more than
\* table_alignments holds.
WideLines ==
  { <<"|", "a", "|", "b", "|", "c", "|">>,
    [k \in 1..(2 * (MAX_TABLE_COLUMNS + 1) + 1) |->
       IF k % 2 = 1 THEN "|" ELSE ":"] }

WideDocs == DocsOf(WideLines, MaxLines)

SpecWide == InitWith(WideDocs) /\ [][Next]_vars

\* The alignment a trimmed separator cell asks for.
ExpectedAlign(cell) ==
  IF cell = <<>> THEN ALIGN_NONE
  ELSE IF cell[1] = ":" /\ cell[Len(cell)] = ":" THEN ALIGN_CENTER
  ELSE IF cell[Len(cell)] = ":" THEN ALIGN_RIGHT
  ELSE IF cell[1] = ":" THEN ALIGN_LEFT
  ELSE ALIGN_NONE

\* The alignment a style attribute in the sink stands for.
StyleAlign(piece) ==
  CASE piece = " style=\"text-align:left\"" -> ALIGN_LEFT
    [] piece = " style=\"text-align:center\"" -> ALIGN_CENTER
    [] piece = " style=\"text-align:right\"" -> ALIGN_RIGHT
    [] OTHER -> ALIGN_NONE

\* The alignments of the <th and <td cells in a run of pieces, in order.
RECURSIVE CellStyles(_)
CellStyles(out) ==
  IF out = <<>> THEN <<>>
  ELSE IF Head(out) \in {"<th", "<td"}
  THEN <<IF Len(out) >= 2 THEN StyleAlign(out[2]) ELSE ALIGN_NONE>>
       \o CellStyles(Tail(out))
  ELSE CellStyles(Tail(out))

\* A piece is among the pieces a call appended.
Appended(entry, piece) == \E k \in DOMAIN entry.out : entry.out[k] = piece

\* The separator row of the table a row belongs to: the lookahead line of
\* the last line up to entry i that opened a table.
SeparatorOf(i) ==
  LET hs == {j \in 1..i : Appended(log[j], "<table><thead><tr>")}
  IN log[CHOOSE j \in hs : \A m \in hs : m <= j].la[1]

\* The alignments the cells of a row get from a separator row: the k-th
\* cell that of the k-th separator cell, the cells past the last none.
RowAligns(row, separator) ==
  [k \in 1..Len(PipeCells(row)) |->
     IF k <= Len(PipeCells(separator))
     THEN ExpectedAlign(PipeCells(separator)[k]) ELSE ALIGN_NONE]

\* C15 (table alignment): the cells of a header row and of a body row carry
\* the styles of the separator row's cells, cell by cell, and a row emits
\* as many cells as it has.
C15_TableAlignment ==
  \A i \in DOMAIN log :
    (/\ Trimmed(log[i].line) # <<>>
     /\ Trimmed(log[i].line)[1] = "|"
     /\ Appended(log[i], "<table><thead><tr>") \/ Appended(log[i], "<tr>")) =>
      CellStyles(log[i].out) = RowAligns(log[i].line, SeparatorOf(i))

\* ------------------------------------------------------------------ lists

\* Lines for the list claims: items of both kinds at two indents, a
\* paragraph line, and a table header with its separator.
ListLines ==
  { <<"-", " ", "a">>,
    <<" ", " ", "-", " ", "a">>,
    <<"1", ".", " ", "a">>,
    <<" ", " ", "1", ".", " ", "a">>,
    <<"a">>,
    <<"|", "a", "|">>,
    <<"|", "-", "|">> }

ListDocs == DocsOf(ListLines, MaxLines + 1)

SpecList == InitWith(ListDocs) /\ [][Next]_vars

\* The number of spaces a line starts with.
IndentOf(line) ==
  MinOf({k \in 1..Len(line) : line[k] # " "} \cup {Len(line) + 1}) - 1

\* The kind of list item a line is, or -1: "- " is an unordered item and
\* "<digit>. " an ordered one, after the leading spaces.
KindOf(line) ==
  LET n == IndentOf(line)
      c(k) == IF n + k <= Len(line) THEN line[n + k] ELSE NUL
  IN IF c(1) = "-" /\ c(2) = " " THEN BLOCK_UNORDERED_LIST
     ELSE IF c(1) \in Digits /\ c(2) = "." /\ c(3) = " " THEN BLOCK_ORDERED_LIST
     ELSE -1

\* Entry i of the log is a list-item line that reached the list step with
\* the stack it was called with: no blockquote is open, no code or math
\* block swallows the line, and the stack is below the depth cap.
ListItemCase(i) ==
  /\ KindOf(log[i].line) # -1
  /\ \A k \in DOMAIN log[i].before :
       log[i].before[k].block_type # BLOCK_BLOCKQUOTE
  /\ TopType(log[i].before) \notin {BLOCK_CODE, BLOCK_MATH}
  /\ Len(log[i].before) < MAX_BLOCK_NESTING

\* How many entries the closing rule takes off a stack for an item of kind
\* K at indent n: the lists on top that are deeper than n, or at n and of
\* another kind.
RECURSIVE ListsToClose(_, _, _)
ListsToClose(st, K, n) ==
  IF /\ st # <<>>
     /\ TopType(st) \in {BLOCK_UNORDERED_LIST, BLOCK_ORDERED_LIST}
     /\ \/ st[Len(st)].indent_level > n
        \/ st[Len(st)].indent_level = n /\ TopType(st) # K
  THEN 1 + ListsToClose(Popped(st), K, n)
  ELSE 0

\* The stack of entry i after the closing rule.
AfterClosing(i) ==
  SubSeq(log[i].before, 1,
         Len(log[i].before)
           - ListsToClose(log[i].before, KindOf(log[i].line),
                          IndentOf(log[i].line)))

\* The list entry of the item of entry i.
ItemList(i) ==
  [block_type |-> KindOf(log[i].line), indent_level |-> IndentOf(log[i].line)]

\* A stack without the leaf entry (Table or Paragraph) on its top, if any.
WithoutLeaf(st) ==
  IF TopType(st) \in {BLOCK_TABLE, BLOCK_PARAGRAPH} THEN Popped(st) ELSE st

\* The topmost list entry of a stack, or none.
TopList(st) ==
  LET ks == {k \in DOMAIN st :
               st[k].block_type \in {BLOCK_UNORDERED_LIST, BLOCK_ORDERED_LIST}}
  IN IF ks = {} THEN <<>>
     ELSE <<st[CHOOSE k \in ks : \A m \in ks : m <= k]>>

\* The piece that opens a list of a kind.
ListOpening(K) ==
  IF K = BLOCK_UNORDERED_LIST THEN "<ul>\n<li>" ELSE "<ol>\n<li>"

C17_ListClosingRule ==
  \A i \in DOMAIN log :
    ListItemCase(i) =>
      LET popped == SubSeq(log[i].before, Len(AfterClosing(i)) + 1,
                           Len(log[i].before))
      IN /\ Len(log[i].out) > Len(popped)
         /\ SubSeq(log[i].out, 1, Len(popped)) = CloseEmissionsTopDown(popped)
         /\ log[i].out[Len(popped) + 1]
              \notin {"</li>\n</ul>\n", "</li>\n</ol>\n"}
         /\ IsPrefix(WithoutLeaf(AfterClosing(i)), log[i].after)

\* C17's case: an item back at the outer indent closed a nested list, and
\* an item closed a list of the other kind at its indent.
C17_Witness ==
  /\ \E i \in DOMAIN log :
       /\ ListItemCase(i)
       /\ ListsToClose(log[i].before, KindOf(log[i].line),
                       IndentOf(log[i].line)) > 0
       /\ log[i].before[Len(log[i].before)].indent_level
            > IndentOf(log[i].line)
  /\ \E i \in DOMAIN log :
       /\ ListItemCase(i)
       /\ ListsToClose(log[i].before, KindOf(log[i].line),
                       IndentOf(log[i].line)) > 0
       /\ log[i].before[Len(log[i].before)].indent_level
            = IndentOf(log[i].line)

\* ------------------------------------------------------- lazy continuation

\* Lines for the lazy continuation of a blockquote: quoted lines of one and
\* two markers, lines without a marker that do and do not start a block, and
\* a line followed by a row that a table handler or definition term handler
\* looks ahead to.
LazyLines ==
  { <<">", " ", "a">>,
    <<">", ">", " ", "a">>,
    <<"a">>,
    <<"#", " ", "a">>,
    <<"|", "a", "|">>,
    <<"|", "-", "|">>,
    <<":", " ", "a">> }

LazyDocs == DocsOf(LazyLines, MaxLines + 1)

SpecLazy == InitWith(LazyDocs) /\ [][Next]_vars

\* A line without its run of blockquote markers, each with the one space
\* that may follow it, and how many markers there were.
RECURSIVE Markers(_)
Markers(s) ==
  IF s # <<>> /\ s[1] = ">"
  THEN LET t == IF Len(s) >= 2 /\ s[2] = " " THEN SubSeq(s, 3, Len(s))
                ELSE Tail(s)
       IN [n |-> 1 + Markers(t).n, rest |-> Markers(t).rest]
  ELSE [n |-> 0, rest |-> s]

\* The markers of a line, counted after its leading spaces.
LineQuote(line) == Markers(SubSeq(line, IndentOf(line) + 1, Len(line)))

\* The is-block predicate on the remainder of a line, after space trim.
StartsBlock(line) ==
  LET r == SubSeq(LineQuote(line).rest, IndentOf(LineQuote(line).rest) + 1,
                  Len(LineQuote(line).rest))
      c(k) == IF k <= Len(r) THEN r[k] ELSE NUL
  IN \/ c(1) = GRAVE /\ c(2) = GRAVE /\ c(3) = GRAVE
     \/ c(1) = "$" /\ c(2) = "$"
     \/ c(1) \in {"#", ":"}
     \/ c(1) = "-" /\ c(2) = " "
     \/ c(1) \in Digits /\ c(2) = "." /\ c(3) = " "
     \/ c(1) \in {"-", "*", "_"} /\ c(2) = c(1) /\ c(3) = c(1)

\* The Blockquote entries of a stack.
Quotes(st) == {k \in DOMAIN st : st[k].block_type = BLOCK_BLOCKQUOTE}

\* Entry i of the log is a line with fewer markers than there are Blockquote
\* entries on the stack, classified with Paragraph on top.
LazyCase(i) ==
  /\ log[i].line # <<>>
  /\ IndentOf(log[i].line) < Len(log[i].line)
  /\ LineQuote(log[i].line).n < Cardinality(Quotes(log[i].before))
  /\ TopType(log[i].before) = BLOCK_PARAGRAPH

\* The entries of the stack of entry i from the first surplus Blockquote up.
Surplus(i) ==
  LET first == CHOOSE k \in Quotes(log[i].before) :
                 Cardinality({m \in Quotes(log[i].before) : m < k})
                   = LineQuote(log[i].line).n
  IN SubSeq(log[i].before, first, Len(log[i].before))

\* C18 (lazy blockquote continuation): a line with fewer markers than open
\* blockquotes, classified with Paragraph on top, pops nothing and is
\* appended to the open paragraph after a newline when its remainder does
\* not start a block; when it does, the paragraph and the surplus
\* blockquotes are closed first.
C18_LazyContinuation ==
  \A i \in DOMAIN log :
    LazyCase(i) =>
      IF ~StartsBlock(log[i].line)
      THEN /\ log[i].after = log[i].before
           /\ log[i].out # <<>>
           /\ log[i].out[1] = "\n"
           /\ \A k \in DOMAIN log[i].out : TagEvents(log[i].out[k]) = <<>>
      ELSE IsPrefix(CloseEmissionsTopDown(Surplus(i)), log[i].out)

\* ------------------------------------------------------ definition lists

\* The entries of a stack of a block type.
EntriesOf(st, type) == {k \in DOMAIN st : st[k].block_type = type}

\* Entry i of the log is a line that reached the definition description
\* step with a remainder that begins with ": ".
DescriptionCase(i) ==
  /\ TopType(log[i].before) \notin {BLOCK_CODE, BLOCK_MATH}
  /\ Len(LineQuote(log[i].line).rest) >= 2
  /\ LineQuote(log[i].line).rest[1] = ":"
  /\ LineQuote(log[i].line).rest[2] = " "

\* C19 (definition description): after a line whose remainder begins with
\* ": " a DefinitionList is open and exactly one DefinitionDescription is on
\* the stack; a DefinitionDescription that was open is closed before the new
\* one is opened.
C19_OneDescription ==
  \A i \in DOMAIN log :
    DescriptionCase(i) =>
      /\ EntriesOf(log[i].after, BLOCK_DEFINITION_LIST) # {}
      /\ Cardinality(EntriesOf(log[i].after, BLOCK_DEFINITION_DESCRIPTION)) = 1
      /\ EntriesOf(log[i].before, BLOCK_DEFINITION_DESCRIPTION) # {} =>
           \E k, m \in DOMAIN log[i].out :
             k < m /\ log[i].out[k] = "</dd>\n" /\ log[i].out[m] = "<dd>"

\* -------------------------------------------------------------- paragraphs

\* The entries that hold the inline text of a line themselves.
TextHolders ==
  {BLOCK_PARAGRAPH, BLOCK_UNORDERED_LIST, BLOCK_ORDERED_LIST,
   BLOCK_DEFINITION_DESCRIPTION}

\* The line of a log entry opened a list item or a definition description.
OpenedItem(entry) ==
  \/ Appended(entry, "<dd>")
  \/ Appended(entry, "</li>\n<li>")
  \/ Appended(entry, "<ul>\n<li>")
  \/ Appended(entry, "<ol>\n<li>")

\* C20 (paragraph default): a line that reaches the paragraph handler emits
\* "<p>" and pushes Paragraph exactly when the top entry is neither
\* Paragraph nor a list nor a DefinitionDescription; on a Paragraph it emits
\* a newline and leaves the stack as it was; on a list or
\* DefinitionDescription it pushes nothing and emits a newline exactly when
\* the line did not open the item or description itself.
C20_ParagraphDefault ==
  \A i \in DOMAIN log :
    log[i].para # <<>> =>
      /\ Appended(log[i], "<p>") <=> TopType(log[i].para[1]) \notin TextHolders
      /\ log[i].after =
           IF TopType(log[i].para[1]) \notin TextHolders
           THEN Append(log[i].para[1],
                       [block_type |-> BLOCK_PARAGRAPH, indent_level |-> 0])
           ELSE log[i].para[1]
      /\ TopType(log[i].para[1]) = BLOCK_PARAGRAPH => Appended(log[i], "\n")
      /\ TopType(log[i].para[1]) \in TextHolders \ {BLOCK_PARAGRAPH} =>
           (Appended(log[i], "\n") <=> ~OpenedItem(log[i]))

\* --------------------------------------------------------------- headings

\* Lines for the heading claim: headings of the lowest and highest level,
\* one with a byte that has an entity, a run of seven #, a # with no space
\* after it, and a paragraph line.
HeadLines ==
  { <<"#", " ", "a">>,
    <<"#", "#", "#", "#", "#", "#", " ", "<">>,
    <<"#", "#", "#", "#", "#", "#", "#", " ", "a">>,
    <<"#", "a">>,
    <<"a">> }

HeadDocs == DocsOf(HeadLines, MaxLines + 1)

SpecHead == InitWith(HeadDocs) /\ [][Next]_vars

\* The number of # bytes a line starts with.
HashRun(line) ==
  MinOf({k \in 1..Len(line) : line[k] # "#"} \cup {Len(line) + 1}) - 1

\* Entry i of the log is a line that reached the heading step as it is: it
\* has no leading space, no code or math block swallows it, and no
\* blockquote is open.
HeadingStep(i) ==
  /\ log[i].line # <<>>
  /\ log[i].line[1] = "#"
  /\ TopType(log[i].before) \notin {BLOCK_CODE, BLOCK_MATH}
  /\ Quotes(log[i].before) = {}

\* The line is a run of one to six # followed by a space.
IsHeading(line) ==
  /\ HashRun(line) \in 1..6
  /\ HashRun(line) < Len(line)
  /\ line[HashRun(line) + 1] = " "

\* The pieces the inline tokenizer appends for the bytes of a fragment, with
\* raw HTML enabled or not.
InlineWith(bytes, html) ==
  parse_inline_content([InitParser EXCEPT !.enable_html = html], bytes, 0,
                       Len(bytes)).out

\* The same with raw HTML disabled, the state after octomark_init.
InlineOf(bytes) == InlineWith(bytes, FALSE)

\* The opening tags of the six heading levels.
HeadingTags == {"<h1>", "<h2>", "<h3>", "<h4>", "<h5>", "<h6>"}

\* C21 (ATX heading): a line of N # (1 <= N <= 6) and a space closes the
\* open leaf block, emits <hN>, the inline content and </hN> with a newline,
\* and pushes nothing; a run of seven # or a # with no space after it emits
\* no heading tag.
C21_AtxHeading ==
  \A i \in DOMAIN log :
    HeadingStep(i) =>
      IF IsHeading(log[i].line)
      THEN /\ log[i].out =
                (IF TopType(log[i].before) \in {BLOCK_TABLE, BLOCK_PARAGRAPH}
                 THEN <<CloseEmission(TopType(log[i].before))>> ELSE <<>>)
                \o << <<"<h1>", "<h2>", "<h3>", "<h4>", "<h5>",
                        "<h6>">>[HashRun(log[i].line)] >>
                \o InlineOf(SubSeq(log[i].line, HashRun(log[i].line) + 2,
                                   Len(log[i].line)))
                \o << <<"</h1", "</h2", "</h3", "</h4", "</h5",
                        "</h6">>[HashRun(log[i].line)], ">\n" >>
           /\ log[i].after = WithoutLeaf(log[i].before)
      ELSE \A k \in DOMAIN log[i].out : log[i].out[k] \notin HeadingTags

\* C21's case: a heading of level six closed an open paragraph, and a run
\* of seven # was classified.
C21_Witness ==
  /\ \E i \in DOMAIN log :
       /\ HeadingStep(i)
       /\ HashRun(log[i].line) = 6
       /\ TopType(log[i].before) \in {BLOCK_TABLE, BLOCK_PARAGRAPH}
       /\ log[i].after = Popped(log[i].before)
  /\ \E i \in DOMAIN log : HeadingStep(i) /\ HashRun(log[i].line) = 7

\* ------------------------------------------------------------ hard breaks

\* Lines for the hard break claim: paragraph lines that end in two spaces,
\* in three spaces and in a backslash, and one that ends in neither.
BreakLines ==
  { <<"a", " ", " ">>,
    <<"<", " ", " ", " ">>,
    <<"<", "\\">>,
    <<"a">> }

BreakDocs == DocsOf(BreakLines, MaxLines + 1)

SpecBreak == InitWith(BreakDocs) /\ [][Next]_vars

\* The bytes the tokenizer looks at, apart from those that only have an
\* entity.
MarkupBytes == {"\\", "[", "*", GRAVE, "_", "~", "!", "$", "h"}

\* Entry i of the log is a line that reached the paragraph handler as it
\* is: it has no leading space, blockquote, list or description marker.
PlainParagraphLine(i) ==
  /\ log[i].para # <<>>
  /\ log[i].para[1] = log[i].before
  /\ log[i].line[1] \notin {" ", ">", ":"}
  /\ KindOf(log[i].line) = -1

\* The length of the hard break marker a line ends in: two for two spaces,
\* one for a backslash, else zero.
BreakMarker(line) ==
  IF Len(line) >= 2 /\ line[Len(line)] = " " /\ line[Len(line) - 1] = " "
  THEN 2
  ELSE IF line # <<>> /\ line[Len(line)] = "\\" THEN 1 ELSE 0

\* A line without its hard break marker.
BeforeMarker(line) == SubSeq(line, 1, Len(line) - BreakMarker(line))

\* Entry i is a paragraph line that ends in a hard break marker after text
\* without markup.
BreakCase(i) ==
  /\ PlainParagraphLine(i)
  /\ BreakMarker(log[i].line) > 0
  /\ \A k \in DOMAIN BeforeMarker(log[i].line) :
       BeforeMarker(log[i].line)[k] \notin MarkupBytes

InlineLines ==
  { <<"*", "a", "*">>,
    <<"_", "a", "_">>,
    <<"_", "<", "_">>,
    <<"*", "*", "a", "*", "*">>,
    <<"*", "*", "*", "a", "*", "*", "*">>,
    <<"\\", "_", "a", "_">>,
    <<"\\", "<">>,
    <<"a", "\\">>,
    <<"[", "a", "]", "(", "b", ")">>,
    <<"[", "a", "]", "(", "&", ")">>,
    <<"!", "[", "a", "]", "(", "b", ")">>,
    <<"!", "[", "<", "]", "(", "a", ")">>,
    <<GRAVE, "a", GRAVE>>,
    <<"a", GRAVE>>,
    <<"_", "a">>,
    <<"*", "*", "<">>,
    <<"[", "a">>,
    <<"!", "[", "a">>,
    <<"[", "a", "]", "b">>,
    <<"[", "a", "]", "(", "b">>,
    <<"[", "a", "]", "(", "b", " ", "c">>,
    <<"h", "t", "t", "p", ":", "/", "/", "a", "<">>,
    <<"h", "t", "t", "p", "s", ":", "/", "/", "a", " ", "b">>,
    <<"h", "t", "t", "p", ":", "/", "/", "a", ")">>,
    <<"h", "t", "t", "p", ":", "/", "/", "a", "&">> }

InlineDocs == DocsOf(InlineLines, MaxLines - 1)

SpecInline == InitWith(InlineDocs) /\ [][Next]_vars

\* Entry i is a paragraph line d X d for a delimiter d of n bytes c and
\* text X with no c in it.
SpanCase(i, c, n) ==
  /\ PlainParagraphLine(i)
  /\ Len(log[i].line) > 2 * n
  /\ \A k \in 1..n :
       log[i].line[k] = c /\ log[i].line[Len(log[i].line) + 1 - k] = c
  /\ \A k \in (n + 1)..(Len(log[i].line) - n) :
       log[i].line[k] # c /\ log[i].line[k] \notin MarkupBytes \ {"*"}

\* The pieces a paragraph line appends when its text X, between delimiters
\* of n bytes, is wrapped in open and close.
Wrapped(i, n, open, close) ==
  <<"<p>", open>>
    \o Escaped(SubSeq(log[i].line, n + 1, Len(log[i].line) - n))
    \o <<close>>

\* C23 (single-delimiter emphasis): a span *X* as well as a span _X_ is
\* emitted as <em>, the inline content of X and </em>.
C23_SingleEmphasis ==
  \A i \in DOMAIN log :
    \A c \in {"*", "_"} :
      (SpanCase(i, c, 1) /\ log[i].before = <<>>) =>
        log[i].out = Wrapped(i, 1, "<em>", "</em>")

\* C24 (triple-run emphasis): a span ***X*** is emitted as <strong><em>, the
\* inline content of X and </em></strong>.
C24_TripleEmphasis ==
  \A i \in DOMAIN log :
    (SpanCase(i, "*", 3) /\ log[i].before = <<>>) =>
      \/ log[i].out = Wrapped(i, 3, "<strong><em>", "</em></strong>")
      \/ log[i].out = <<"<p>", "<strong>", "<em>">>
                        \o Escaped(SubSeq(log[i].line, 4, Len(log[i].line) - 3))
                        \o <<"</em>", "</strong>">>

\* C25 (backslash escape): a backslash followed by a byte b emits b, as its
\* entity when it has one, and the tokenizer goes on after b without taking
\* it for markup; a backslash that is the last byte of the fragment emits
\* <br>.
C25_BackslashEscape ==
  \A i \in DOMAIN log :
    (PlainParagraphLine(i) /\ log[i].before = <<>>) =>
      /\ (Len(log[i].line) >= 2 /\ log[i].line[1] = "\\") =>
           log[i].out = <<"<p>">> \o Escaped(<<log[i].line[2]>>)
                          \o InlineOf(SubSeq(log[i].line, 3, Len(log[i].line)))
      /\ (BreakCase(i) /\ BreakMarker(log[i].line) = 1) =>
           log[i].out[Len(log[i].out)] = "<br>"

\* The index of the first byte c of a line, or 0.
IndexOf(line, c) ==
  IF \E k \in DOMAIN line : line[k] = c
  THEN MinOf({k \in DOMAIN line : line[k] = c}) ELSE 0

\* A line [text](url) from its byte s on: text has no bracket and url has no
\* space and no parenthesis.
IsLinkFrom(line, s) ==
  /\ Len(line) >= s + 4
  /\ line[s] = "["
  /\ line[Len(line)] = ")"
  /\ IndexOf(line, "]") > s
  /\ IndexOf(line, "]") + 1 < Len(line)
  /\ line[IndexOf(line, "]") + 1] = "("
  /\ \A k \in (s + 1)..(Len(line) - 1) :
       /\ line[k] = "[" => FALSE
       /\ line[k] = "]" => k = IndexOf(line, "]")
       /\ line[k] = "(" => k = IndexOf(line, "]") + 1
       /\ line[k] \notin {")", " "}

LinkText(line, s) == SubSeq(line, s + 1, IndexOf(line, "]") - 1)

LinkUrl(line) == SubSeq(line, IndexOf(line, "]") + 2, Len(line) - 1)

\* C26 (link and image attributes): [text](url) is emitted as <a href=",
\* the escaped url, ">, the inline content of text and </a>, and
\* ![alt](url) as <img src=", the escaped url, " alt=", the escaped alt
\* and ">.
C26_AttributesEscaped ==
  \A i \in DOMAIN log :
    (PlainParagraphLine(i) /\ log[i].before = <<>>) =>
      /\ IsLinkFrom(log[i].line, 1) =>
           log[i].out = <<"<p>", "<a href=\"">> \o Escaped(LinkUrl(log[i].line))
                          \o <<"\">">> \o InlineOf(LinkText(log[i].line, 1))
                          \o <<"</a>">>
      /\ (log[i].line[1] = "!" /\ IsLinkFrom(log[i].line, 2)) =>
           log[i].out = <<"<p>", "<img src=\"">>
                          \o Escaped(LinkUrl(log[i].line))
                          \o <<"\" alt=\"">>
                          \o Escaped(LinkText(log[i].line, 2))
                          \o <<"\">">>

\* ----------------------------------------------------------------- raw HTML

\* Paragraph lines that start with '<': a tag followed by text, a closing
\* tag, a comment, a processing instruction, a declaration, a CDATA section,
\* a tag with '>' inside a quoted attribute, and shapes that are not
\* recognized: an unclosed quote, no '>', a space or a digit after '<'.
HtmlLines ==
  { <<"<", "b", ">", "a">>,
    <<"<", "/", "b", ">">>,
    <<"<", "!", "-", "-", "a", "-", "-", ">">>,
    <<"<", "?", "a", "?", ">">>,
    <<"<", "!", "a", ">">>,
    <<"<", "!", "[", "C", "D", "A", "T", "A", "[", "a", "]", "]", ">">>,
    <<"<", "a", " ", "b", "=", "\"", ">", "\"", ">">>,
    <<"<", "a", " ", "b", "=", "\"", ">">>,
    <<"<", "a">>,
    <<"<", " ", "a", ">">>,
    <<"<", "1", ">">> }

HtmlDocs == DocsOf(HtmlLines, MaxLines - 1)

\* The caller sets parser.enable_html after octomark_init, or leaves it.
InitHtml ==
  /\ doc \in HtmlDocs
  /\ fed = 0
  /\ pending = <<>>
  /\ stack = InitParser.stack
  /\ table_alignments = InitParser.table_alignments
  /\ enable_html \in BOOLEAN
  /\ output = InitParser.out
  /\ phase = "open"
  /\ log = <<>>

SpecHtml == InitHtml /\ [][Next]_vars

\* The index of the last byte of the first occurrence of pat in a line at or
\* after byte from, or 0.
EndOfFirst(line, from, pat) ==
  LET ks == {k \in from..(Len(line) - Len(pat) + 1) :
               SubSeq(line, k, k + Len(pat) - 1) = pat}
  IN IF ks = {} THEN 0 ELSE MinOf(ks) + Len(pat) - 1

\* Byte k of a line is outside the double-quoted attribute values that
\* start after byte from.
Unquoted(line, from, k) ==
  Cardinality({m \in from..(k - 1) : line[m] = "\""}) % 2 = 0

\* The index of the terminator of the shape a line that begins with '<'
\* starts, or 0 when it starts none: a comment, a CDATA section, a
\* processing instruction, a declaration, or an opening or closing tag whose
\* attribute values are in double quotes.
ShapeEnd(line) ==
  LET Is(pre) == Len(line) >= Len(pre) /\ SubSeq(line, 1, Len(pre)) = pre
      name == IF Is(<<"<", "/">>) THEN 3 ELSE 2
      gts == {k \in (name + 1)..Len(line) :
                line[k] = ">" /\ Unquoted(line, name, k)}
  IN IF Len(line) < 3 THEN 0
     ELSE IF Is(<<"<", "!", "-", "-">>)
     THEN EndOfFirst(line, 5, <<"-", "-", ">">>)
     ELSE IF Is(<<"<", "!", "[", "C", "D", "A", "T", "A", "[">>)
     THEN EndOfFirst(line, 10, <<"]", "]", ">">>)
     ELSE IF Is(<<"<", "?">>) THEN EndOfFirst(line, 3, <<"?", ">">>)
     ELSE IF Is(<<"<", "!">>) THEN EndOfFirst(line, 3, <<">">>)
     ELSE IF name <= Len(line) /\ line[name] \in Letters /\ gts # {}
     THEN MinOf(gts)
     ELSE 0

\* C27 (raw HTML gating): with enable_html set, a '<' that starts a
\* recognized shape is copied as it is up to its terminator; when no shape is
\* recognized, and always when enable_html is not set, the '<' is emitted as
\* its entity and the tokenizer goes on with the next byte.
C27_RawHtmlGating ==
  \A i \in DOMAIN log :
    (PlainParagraphLine(i) /\ log[i].before = <<>> /\ log[i].line[1] = "<") =>
      IF enable_html /\ ShapeEnd(log[i].line) > 0
      THEN log[i].out =
             <<"<p>">> \o SubSeq(log[i].line, 1, ShapeEnd(log[i].line))
               \o InlineWith(SubSeq(log[i].line, ShapeEnd(log[i].line) + 1,
                                    Len(log[i].line)), TRUE)
      ELSE log[i].out =
             <<"<p>", "&lt;">>
               \o InlineWith(SubSeq(log[i].line, 2, Len(log[i].line)),
                             enable_html)

\* C27's case: with enable_html set, a tag with '>' inside a quoted
\* attribute value was copied to the sink up to its terminator.
C27_Witness ==
  /\ enable_html
  /\ \E i \in DOMAIN log :
       /\ log[i].line = <<"<", "a", " ", "b", "=", "\"", ">", "\"", ">">>
       /\ ShapeEnd(log[i].line) = 9
       /\ log[i].out = <<"<p>">> \o log[i].line

\* C28 (table column bound): table_column_count is at most 64 in every
\* state, and no call writes table_alignments or the cell arrays of a row
\* past their 64 entries.
C28_TableColumnBound ==
  /\ Len(table_alignments) <= MAX_TABLE_COLUMNS
  /\ phase # "ub"

\* C29 (inline bounds safety): for every line classified, the inline
\* tokenizer applied to the bytes of the line as a fragment reads no byte
\* outside the fragment and passes on no length greater than its own, also
\* when the last byte of the fragment is a backtick.
C29_InlineBounds ==
  \A i \in DOMAIN log :
    ~parse_inline_content(InitParser, log[i].line, 0, Len(log[i].line)).ub

\* The bracket at byte s of a line is followed by ](url): a closing
\* bracket, a parenthesis, a url without a space and a closing parenthesis.
FollowedByUrl(line, s) ==
  \E b \in (s + 1)..Len(line), e \in (s + 1)..Len(line) :
    /\ line[s] = "["
    /\ line[b] = "]"
    /\ e > b + 1
    /\ line[b + 1] = "("
    /\ line[e] = ")"
    /\ \A k \in (b + 2)..(e - 1) : line[k] # " "

\* An opener that degrades, at the start of a line: _ with no second _,
\* ** with no second **, [ or ![ not followed by ](url). The value is the
\* number of bytes of the opener, or 0.
OpenerLength(line) ==
  LET c(k) == IF k <= Len(line) THEN line[k] ELSE NUL
      rest(n) == SubSeq(line, n + 1, Len(line))
  IN IF c(1) = "_" /\ IndexOf(rest(1), "_") = 0 THEN 1
     ELSE IF c(1) = "*" /\ c(2) = "*"
             /\ EndOfFirst(line, 3, <<"*", "*">>) = 0 THEN 2
     ELSE IF c(1) = "[" /\ ~FollowedByUrl(line, 1) THEN 1
     ELSE IF c(1) = "!" /\ c(2) = "[" /\ ~FollowedByUrl(line, 2) THEN 2
     ELSE 0

\* The tags of emphasis, links and images.
SpanTags ==
  {"<em>", "</em>", "<strong>", "</strong>", "<a href=\"", "</a>",
   "<img src=\""}

\* C30 (graceful degradation): an emphasis opener with no closer before the
\* end of the fragment, and a [ or ![ that is not followed by ](url), are
\* emitted as text, no tag of emphasis, link or image is emitted for them,
\* and the tokenizer goes on with the byte after the opener, so that every
\* byte of the fragment is in the sink, escaped where it has an entity.
C30_GracefulDegradation ==
  \A i \in DOMAIN log :
    (/\ PlainParagraphLine(i)
     /\ log[i].before = <<>>
     /\ OpenerLength(log[i].line) > 0
     /\ \A k \in (OpenerLength(log[i].line) + 1)..Len(log[i].line) :
          log[i].line[k] \notin MarkupBytes \ {"["}) =>
      /\ log[i].out = <<"<p>">> \o Escaped(log[i].line)
      /\ \A k \in DOMAIN log[i].out : log[i].out[k] \notin SpanTags

\* ----------------------------------------------------------------- blank lines

\* Lines for the claim about blank lines: an empty line and a line of two
\* spaces, after a list item, a blockquote, a table header with its
\* separator, and a definition description.
BlankLines ==
  { <<>>,
    <<" ", " ">>,
    <<"-", " ", "a">>,
    <<">", " ", "a">>,
    <<"|", "a", "|">>,
    <<"|", "-", "|">>,
    <<":", " ", "a">> }

BlankDocs == DocsOf(BlankLines, MaxLines + 1)

SpecBlank == InitWith(BlankDocs) /\ [][Next]_vars

\* Entry i of the log is a line that is empty or has only spaces, classified
\* with no Code or Math entry on top.
BlankCase(i) ==
  /\ \A k \in DOMAIN log[i].line : log[i].line[k] = " "
  /\ TopType(log[i].before) \notin {BLOCK_CODE, BLOCK_MATH}

Lists == {BLOCK_UNORDERED_LIST, BLOCK_ORDERED_LIST}

\* The entries a blank line leaves of a stack: everything up to the topmost
\* list entry.
UpToTopList(st) ==
  SubSeq(st, 1, IF \E k \in DOMAIN st : st[k].block_type \in Lists
                THEN CHOOSE k \in DOMAIN st :
                       /\ st[k].block_type \in Lists
                       /\ \A j \in (k + 1)..Len(st) : st[j].block_type \notin Lists
                ELSE 0)

\* C31 (blank line): a line that is empty or has only spaces, classified
\* with no Code or Math on top, returns false, pops the entries above the
\* topmost list entry and no list entry, and appends the close emissions of
\* the popped entries, top entry first, and nothing else; afterwards the
\* stack is empty or has a list on top.
C31_BlankLine ==
  \A i \in DOMAIN log :
    BlankCase(i) =>
      LET st == log[i].before
          kept == UpToTopList(st)
      IN /\ ~log[i].skip
         /\ log[i].after = kept
         /\ log[i].out = CloseEmissionsTopDown(SubSeq(st, Len(kept) + 1, Len(st)))
         /\ TopType(log[i].after) \in Lists \cup {-1}

\* C31's case: a line of spaces closed a definition description and its
\* definition list above a list, which it left open.
C31_Witness ==
  \E i \in DOMAIN log :
    /\ BlankCase(i)
    /\ log[i].line = <<" ", " ">>
    /\ Len(log[i].before) = 3
    /\ log[i].before[1].block_type = BLOCK_UNORDERED_LIST
    /\ TopType(log[i].before) = BLOCK_DEFINITION_DESCRIPTION
    /\ log[i].after = <<log[i].before[1]>>
    /\ Len(log[i].out) = 2

\* ------------------------------------------------------ the tail at the end

\* The entry of the log for the residual tail that octomark_finish
\* classified.
TailEntry == log[Len(log)]

\* octomark_finish has returned and had a residual tail to classify.
TailCase == phase = "finished" /\ pending # <<>> /\ log # <<>>

\* C32 (end-of-input lookahead): octomark_finish classifies the residual
\* tail with an empty lookahead; the tail opens no table unless Table is on
\* top already, is never rendered as a definition term, and a tail that
\* starts with '|' while the top entry is not Table, Code or Math is
\* rendered as paragraph text: process_paragraph takes it and its inline
\* content ends the emission.
C32_TailLookahead ==
  TailCase =>
    LET e == TailEntry
        inl == InlineOf(e.line)
    IN /\ e.line = pending
       /\ e.la = <<>>
       /\ \A k \in DOMAIN e.out : e.out[k] \notin {"<dt>", "<table><thead><tr>"}
       /\ TopType(e.before) # BLOCK_TABLE => TopType(e.after) # BLOCK_TABLE
       /\ (/\ e.line[1] = "|"
           /\ TopType(e.before) \notin {BLOCK_TABLE, BLOCK_CODE, BLOCK_MATH}) =>
            /\ e.para # <<>>
            /\ Len(e.out) >= Len(inl)
            /\ SubSeq(e.out, Len(e.out) - Len(inl) + 1, Len(e.out)) = inl

\* C32's case: the tail is a header row whose separator row the caller never
\* fed, classified after a line of text; it was joined to the paragraph.
C32_Witness ==
  /\ TailCase
  /\ TailEntry.line = <<"|", "a", "|">>
  /\ fed < Len(doc)
  /\ doc[fed + 1] = "\n"
  /\ fed + 2 <= Len(doc)
  /\ doc[fed + 2] = "|"
  /\ TopType(TailEntry.before) = BLOCK_PARAGRAPH
  /\ TailEntry.out = <<"\n", "|", "a", "|">>

\* ------------------------------------------------------- newline-free chunks

\* C33 (frame of a newline-free feed): an octomark_feed whose chunk holds no
\* newline byte, the empty chunk included, appends nothing to the sink,
\* classifies no line, leaves the stack, the table alignments and
\* enable_html as they are, and makes the pending buffer the old one
\* followed by the chunk.
C33_NewlineFreeFeed ==
  [][\A n \in 0..(Len(doc) - fed) :
       (/\ Feed(n)
        /\ \A k \in 1..n : doc[fed + k] # "\n") =>
         /\ output' = output
         /\ stack' = stack
         /\ table_alignments' = table_alignments
         /\ enable_html' = enable_html
         /\ log' = log
         /\ phase' = "open"
         /\ pending' = pending \o Slice(doc, fed, n)]_vars

\* C33's case: every byte fed so far came in chunks without a newline and
\* waits in the pending buffer.
C33_Witness ==
  /\ phase = "open"
  /\ fed > 1
  /\ pending = FedInput
  /\ output = <<>>
  /\ log = <<>>

\* The bytes that end a bare URL.
UrlEnd == {" ", "\t", "\n", "\r", "<", ">", "\"", "'", "[", "]", "(", ")"}

\* A line starts with http:// or https://.
IsBareUrl(line) ==
  \/ IsPrefix(<<"h", "t", "t", "p", ":", "/", "/">>, line)
  \/ IsPrefix(<<"h", "t", "t", "p", "s", ":", "/", "/">>, line)

\* The length of the URL a line starts with: up to the first byte that ends
\* a URL, or the whole line.
UrlLength(line) ==
  IF \E k \in DOMAIN line : line[k] \in UrlEnd
  THEN MinOf({k \in DOMAIN line : line[k] \in UrlEnd}) - 1
  ELSE Len(line)

\* C34 (autolink extent): a bare URL that starts with http:// or https://
\* runs to the first whitespace byte or byte of < > " ' [ ] ( ), or to the
\* end of the fragment, and is emitted as <a href=", the escaped URL, ">,
\* the escaped URL and </a>; the byte that ended it is processed as inline
\* text.
C34_AutolinkExtent ==
  \A i \in DOMAIN log :
    (/\ PlainParagraphLine(i)
     /\ log[i].before = <<>>
     /\ IsBareUrl(log[i].line)) =>
      LET line == log[i].line
          url == SubSeq(line, 1, UrlLength(line))
      IN log[i].out = <<"<p>", "<a href=\"">> \o Escaped(url) \o <<"\">">>
                        \o Escaped(url) \o <<"</a>">>
                        \o InlineOf(SubSeq(line, Len(url) + 1, Len(line)))

\* ------------------------------------------------ chunks without lookahead

\* A classified line without the lookahead the buffer happened to hold.
Classified(e) ==
  [line |-> e.line, before |-> e.before, after |-> e.after, out |-> e.out,
   skip |-> e.skip]

\* The lines of a log as they were classified.
ClassifiedLines(lg) == [k \in DOMAIN lg |-> Classified(lg[k])]

\* The input has no byte that makes a handler look ahead.
NoLookaheadBytes(input) ==
  \A k \in DOMAIN input : input[k] \notin {"|", ":"}

\* C35 (restricted chunking invariance): for an input with no '|' and no
\* ':' byte, once octomark_finish has returned the sink holds what one
\* octomark_feed of the whole input followed by octomark_finish appends, and
\* the same lines were classified in the same way, whatever the chunks were;
\* no line was skipped.
C35_RestrictedChunking ==
  (phase = "finished" /\ NoLookaheadBytes(FedInput)) =>
    /\ output = OneShot(FedInput).p.out
    /\ ClassifiedLines(log) = ClassifiedLines(OneShot(FedInput).lg)
    /\ \A i \in DOMAIN log : ~log[i].skip

\* C35's case: a two-line input without '|' and ':' was fed so that the
\* first line was classified before the second was in the buffer, and the
\* second line was a lazy continuation of the blockquote the first opened.
C35_Witness ==
  /\ phase = "finished"
  /\ NoLookaheadBytes(FedInput)
  /\ Len(log) = 2
  /\ log[1].la = <<>>
  /\ log[2].line = <<"a">>
  /\ Cardinality(Quotes(log[2].before)) = 1
  /\ OneShot(FedInput).lg[1].la = <<log[2].line>>

\* ----------------------------------------------------------- blockquote depth

\* Entry i of the log is a line that is not blank and not a lazy
\* continuation, with no more markers than the stack has room for,
\* classified with no Code or Math on top.
QuoteCase(i) ==
  /\ IndentOf(log[i].line) < Len(log[i].line)
  /\ TopType(log[i].before) \notin {BLOCK_CODE, BLOCK_MATH}
  /\ LineQuote(log[i].line).n <= MAX_BLOCK_NESTING
  /\ ~(LazyCase(i) /\ ~StartsBlock(log[i].line))

\* C36 (blockquote depth): after a line that is not blank and not a lazy
\* continuation was classified, the stack holds as many Blockquote entries
\* as the line has leading markers, whatever was on the stack before.
C36_QuoteDepth ==
  \A i \in DOMAIN log :
    QuoteCase(i) =>
      Cardinality(Quotes(log[i].after)) = LineQuote(log[i].line).n

\* ------------------------------------------------- a single definition list

\* Entry i of the log is a term line: its lookahead line starts, after
\* white space, with ':', and the line was rendered as a term.
TermCase(i) ==
  /\ log[i].la # <<>>
  /\ \E k \in DOMAIN log[i].la[1] :
       /\ log[i].la[1][k] = ":"
       /\ \A j \in 1..(k - 1) : isspace(log[i].la[1][j])
  /\ Appended(log[i], "<dt>")

\* C37 (single definition list): the stack never holds more than one
\* DefinitionList entry, and a term line classified while a DefinitionList
\* is on the stack emits its <dt> with no second <dl> and pushes no second
\* DefinitionList.
C37_SingleDefinitionList ==
  /\ Cardinality(EntriesOf(stack, BLOCK_DEFINITION_LIST)) <= 1
  /\ \A i \in DOMAIN log :
       (TermCase(i) /\ EntriesOf(log[i].before, BLOCK_DEFINITION_LIST) # {}) =>
         /\ ~Appended(log[i], "<dl>\n")
         /\ Cardinality(EntriesOf(log[i].after, BLOCK_DEFINITION_LIST)) = 1

\* ------------------------------------------------------------- list nesting

\* Lines for the nesting of lists: items at two indents, an item whose
\* content is a table header, a separator row and a paragraph line.
NestLines ==
  { <<"-", " ", "a">>,
    <<" ", " ", "-", " ", "a">>,
    <<"-", " ", "|", "a", "|">>,
    <<"|", "-", "|">>,
    <<"a">> }

NestDocs == DocsOf(NestLines, MaxLines + 1)

SpecNest == InitWith(NestDocs) /\ [][Next]_vars

\* Two list entries directly adjacent on a stack, the upper one with an
\* indent that is not greater than that of the lower one.
FlatNesting(st) ==
  \E k \in 1..(Len(st) - 1) :
    /\ st[k].block_type \in Lists
    /\ st[k + 1].block_type \in Lists
    /\ st[k + 1].indent_level <= st[k].indent_level

\* C38 (list nesting): of two list entries directly adjacent on the stack
\* the upper one has the greater indent, in every reachable state and after
\* every classified line, also when a leaf block was on top when a list-item
\* line arrived.
C38_ListNesting ==
  /\ ~FlatNesting(stack)
  /\ \A i \in DOMAIN log : ~FlatNesting(log[i].after)

\* ------------------------------------------------------------ finish again

\* What a further octomark_finish on the parser as it stands would give.
FinishAgain == octomark_finish(Parser, pending, log)

\* C39 (finish consumes the pending input): once octomark_finish has
\* returned the pending buffer is empty, and a second octomark_finish
\* appends nothing to the sink and leaves the parser as it is.
C39_FinishConsumes ==
  phase = "finished" =>
    /\ pending = <<>>
    /\ FinishAgain.p.out = output
    /\ FinishAgain.p.stack = stack
    /\ FinishAgain.p.table_alignments = table_alignments

====
